---- MODULE Spec2Model ----
(***************************************************************************)
(* Workflow inference engine of the NexAPI detector:                       *)
(*   server/services/workflow-analyzer.ts  (WorkflowAnalyzer)              *)
(* Sequence Grouper -> Dependency Detector, over the calls of one tab.     *)
(*                                                                         *)
(* Strings are TLA+ strings; URLs are the texts the code receives and are  *)
(* parsed, split and matched character by character as the code does.      *)
(* A confidence is the exact rational [num, den] of the JavaScript number  *)
(* (den is the longer path length of the URL similarity, or 1).            *)
(***************************************************************************)
EXTENDS Integers, Sequences, FiniteSets, TLC

VARIABLES
  apiCalls,      \* rows of the api_calls table of the tab, in insertion order
  input,         \* the list of calls handed to the analysis (apiCalls of line 43)
  sequences,     \* result of groupCallsIntoSequences for that list
  dependencies,  \* dependencies[k] = detectDependencies(sequences[k])
  phase,         \* "idle" before a run, "analyzed" after a run, "read_failed"
  apiDependencies, \* rows of the api_dependencies table
  apiWorkflows,  \* rows of the api_workflows table
  aborted,       \* the last run ended in the catch of line 63
  clock,         \* the value new Date() returns, one tick per handler
  runs,          \* number of analysis runs made
  workflows,     \* workflows[k] = identifyWorkflows(sequences[k], dependencies[k])
  upserted,      \* the calls of storage.upsertApiDependency / upsertApiWorkflow so far
  outcome,       \* how the promise of the last analyzeApiCallSequences settled
  response,      \* the response of the last request that saved a call
  tasks          \* the analysis runs started by save requests, step by step

vars == <<apiCalls, input, sequences, dependencies, phase,
          apiDependencies, apiWorkflows, aborted, clock, runs,
          workflows, upserted, outcome, response, tasks>>

----------------------------------------------------------------------------
(* Program constants *)

MAX_SEQUENCE_GAP == 30000
MIN_CONFIDENCE_THRESHOLD == 70
COMMON_AUTH_PATTERNS ==
  <<"authorization", "x-auth-token", "x-api-key", "bearer", "access_token">>
authEndpoints == <<"/login", "/auth", "/signin", "/token", "/oauth">>
crudSequences ==
  << <<"POST", "GET">>, <<"PUT", "GET">>, <<"DELETE", "GET">>,
     <<"POST", "PUT">>, <<"GET", "PUT">>, <<"GET", "DELETE">> >>

----------------------------------------------------------------------------
(* JavaScript string primitives *)

Range(s) == { s[i] : i \in DOMAIN s }

CharAt(s, i) == SubSeq(s, i, i)

\* String.prototype.includes
Includes(s, p) ==
  \E i \in 1..(Len(s) - Len(p) + 1) : SubSeq(s, i, i + Len(p) - 1) = p

UpperChars == "ABCDEFGHIJKLMNOPQRSTUVWXYZ"
LowerChars == "abcdefghijklmnopqrstuvwxyz"

LowerChar(c) ==
  IF \E i \in 1..Len(UpperChars) : CharAt(UpperChars, i) = c
  THEN CharAt(LowerChars, CHOOSE i \in 1..Len(UpperChars) : CharAt(UpperChars, i) = c)
  ELSE c

\* String.prototype.toLowerCase
RECURSIVE ToLowerCase(_)
ToLowerCase(s) ==
  IF Len(s) = 0 THEN ""
  ELSE LowerChar(CharAt(s, 1)) \o ToLowerCase(SubSeq(s, 2, Len(s)))

\* index of the first "/" of s at or after position i, or Len(s) + 1
RECURSIVE NextSlash(_, _)
NextSlash(s, i) ==
  IF i > Len(s) THEN Len(s) + 1
  ELSE IF CharAt(s, i) = "/" THEN i
  ELSE NextSlash(s, i + 1)

\* s.split('/') of the text starting at position i
RECURSIVE SplitFrom(_, _)
SplitFrom(s, i) ==
  LET j == NextSlash(s, i) IN
  IF j > Len(s) THEN << SubSeq(s, i, Len(s)) >>
  ELSE << SubSeq(s, i, j - 1) >> \o SplitFrom(s, j + 1)

\* String.prototype.split('/')
SplitSlash(s) == SplitFrom(s, 1)

\* Array.prototype.filter(Boolean) on strings: the empty string is falsy
FilterBoolean(parts) == SelectSeq(parts, LAMBDA p : Len(p) > 0)

IsDigit(c) == c \in {"0", "1", "2", "3", "4", "5", "6", "7", "8", "9"}
IsHexIdChar(c) == IsDigit(c) \/ c \in {"a", "b", "c", "d", "e", "f", "-"}

\* number of leading characters of s, from position i, that satisfy the class
RECURSIVE DigitRun(_, _)
DigitRun(s, i) ==
  IF i <= Len(s) /\ IsDigit(CharAt(s, i)) THEN 1 + DigitRun(s, i + 1) ELSE 0

RECURSIVE HexIdRun(_, _)
HexIdRun(s, i) ==
  IF i <= Len(s) /\ IsHexIdChar(CharAt(s, i)) THEN 1 + HexIdRun(s, i + 1) ELSE 0

\* idPattern = /^[a-f0-9-]{20,}|^\d+$/ ; idPattern.test(part)
idPatternTest(part) ==
  \/ HexIdRun(part, 1) >= 20
  \/ (Len(part) > 0 /\ DigitRun(part, 1) = Len(part))

\* pathname.replace(/\/\d+/g, '/:id'), scanning from position i
RECURSIVE ReplaceIdsFrom(_, _)
ReplaceIdsFrom(s, i) ==
  IF i > Len(s) THEN ""
  ELSE IF CharAt(s, i) = "/" /\ DigitRun(s, i + 1) > 0
       THEN "/:id" \o ReplaceIdsFrom(s, i + 1 + DigitRun(s, i + 1))
       ELSE CharAt(s, i) \o ReplaceIdsFrom(s, i + 1)

ReplaceIds(s) == ReplaceIdsFrom(s, 1)

----------------------------------------------------------------------------
(* new URL(text): texts are "<scheme>://<host>/<path>" or have no scheme.   *)
(* A text without scheme makes the constructor throw (ok = FALSE).          *)

StartsWith(s, p) == Len(s) >= Len(p) /\ SubSeq(s, 1, Len(p)) = p

SchemeOf(url) ==
  IF StartsWith(url, "https://") THEN "https://"
  ELSE IF StartsWith(url, "http://") THEN "http://"
  ELSE ""

ParseUrl(url) ==
  LET scheme == SchemeOf(url)
      start  == Len(scheme) + 1
      slash  == NextSlash(url, start)
      host   == SubSeq(url, start, slash - 1)
  IN IF Len(scheme) = 0 \/ Len(host) = 0
     THEN [ok |-> FALSE, origin |-> "", hostname |-> "", pathname |-> ""]
     ELSE [ok       |-> TRUE,
           origin   |-> scheme \o host,
           hostname |-> host,
           pathname |-> IF slash > Len(url) THEN "/" ELSE SubSeq(url, slash, Len(url))]

----------------------------------------------------------------------------
(* JavaScript numbers of the confidence score, as exact rationals *)

Max(a, b) == IF a >= b THEN a ELSE b
Min(a, b) == IF a <= b THEN a ELSE b

RECURSIVE Gcd(_, _)
Gcd(a, b) == IF b = 0 THEN a ELSE Gcd(b, a % b)

Rat(n, d) == LET g == Gcd(n, d) IN [num |-> n \div g, den |-> d \div g]
RatInt(n) == [num |-> n, den |-> 1]
RatPlus(r, n) == Rat(r.num + n * r.den, r.den)
RatAdd(r, q) == Rat(r.num * q.den + q.num * r.den, r.den * q.den)
RatTimes(r, n) == Rat(r.num * n, r.den)
RatGE(r, n) == r.num >= n * r.den
RatLE(r, n) == r.num <= n * r.den
RatLeq(r, q) == r.num * q.den <= q.num * r.den
\* Math.min(r, n)
RatMin(r, n) == IF RatLE(r, n) THEN r ELSE RatInt(n)

----------------------------------------------------------------------------
(* The signals of the Dependency Detector *)

\* workflow-analyzer.ts:195-216
calculateUrlSimilarity(url1, url2) ==
  LET u1 == ParseUrl(url1)
      u2 == ParseUrl(url2)
  IN IF ~u1.ok \/ ~u2.ok THEN RatInt(0)              \* catch { return 0 }
     ELSE IF u1.hostname # u2.hostname THEN RatInt(0)
     ELSE LET path1 == FilterBoolean(SplitSlash(u1.pathname))
              path2 == FilterBoolean(SplitSlash(u2.pathname))
              maxLength == Max(Len(path1), Len(path2))
              commonSegments ==
                Cardinality({ i \in 1..Min(Len(path1), Len(path2)) : path1[i] = path2[i] })
          IN IF maxLength > 0 THEN Rat(commonSegments, maxLength) ELSE RatInt(0)

\* h.name.toLowerCase().includes(pattern) for some pattern
IsAuthHeaderName(name) ==
  LET lower == ToLowerCase(name)
  IN \E k \in DOMAIN COMMON_AUTH_PATTERNS : Includes(lower, COMMON_AUTH_PATTERNS[k])

\* workflow-analyzer.ts:218-232
isAuthenticationFlow(fromCall, toCall) ==
  LET fromIsAuth == \E k \in DOMAIN authEndpoints : Includes(fromCall.url, authEndpoints[k])
      toCallAuthHeaders ==
        SelectSeq(toCall.requestHeaders, LAMBDA h : IsAuthHeaderName(h.name))
  IN IF ~fromIsAuth THEN FALSE ELSE Len(toCallAuthHeaders) > 0

\* detectAuthTokenFlow with the header name lower-cased in targetField
detectAuthTokenFlow_LowerName(fromCall, toCall) ==
  LET found == SelectSeq(toCall.requestHeaders, LAMBDA h : IsAuthHeaderName(h.name))
  IN IF Len(found) > 0
     THEN << [sourceField    |-> "response.token",
              targetField    |-> "headers." \o ToLowerCase(found[1].name),
              transformation |-> "bearer_prefix"] >>
     ELSE << >>

\* detectAuthTokenFlow looking for a header named exactly authorization
detectAuthTokenFlow_AuthorizationOnly(fromCall, toCall) ==
  LET found == SelectSeq(toCall.requestHeaders,
                         LAMBDA h : ToLowerCase(h.name) = "authorization")
  IN IF Len(found) > 0
     THEN << [sourceField    |-> "response.token",
              targetField    |-> "headers." \o found[1].name,
              transformation |-> "bearer_prefix"] >>
     ELSE << >>

\* workflow-analyzer.ts:234-251 ; the result is a list of zero (null) or one entry
detectAuthTokenFlow(fromCall, toCall) ==
  LET found == SelectSeq(toCall.requestHeaders, LAMBDA h : IsAuthHeaderName(h.name))
  IN IF Len(found) > 0                               \* find: the first match
     THEN << [sourceField    |-> "response.token",
              targetField    |-> "headers." \o found[1].name,
              transformation |-> "bearer_prefix"] >>
     ELSE << >>

\* workflow-analyzer.ts:253-266
isCrudPattern(fromCall, toCall) ==
  \E k \in DOMAIN crudSequences :
     fromCall.method = crudSequences[k][1] /\ toCall.method = crudSequences[k][2]

\* inner loop of analyzeDataFlow: the entries pushed for one fromPart
RECURSIVE DataFlowRow(_, _, _)
DataFlowRow(fromPart, toUrlParts, j) ==
  IF j > Len(toUrlParts) THEN << >>
  ELSE (IF fromPart = toUrlParts[j]
        THEN << [sourceField |-> "url.path." \o fromPart,
                 targetField |-> "url.path." \o toUrlParts[j]] >>
        ELSE << >>) \o DataFlowRow(fromPart, toUrlParts, j + 1)

RECURSIVE DataFlowFrom(_, _, _)
DataFlowFrom(fromUrlParts, toUrlParts, i) ==
  IF i > Len(fromUrlParts) THEN << >>
  ELSE (IF idPatternTest(fromUrlParts[i])
        THEN DataFlowRow(fromUrlParts[i], toUrlParts, 1)
        ELSE << >>) \o DataFlowFrom(fromUrlParts, toUrlParts, i + 1)

\* workflow-analyzer.ts:268-292
analyzeDataFlow(fromCall, toCall) ==
  DataFlowFrom(SplitSlash(fromCall.url), SplitSlash(toCall.url), 1)

\* analyzeConditionalDependency pushing its condition for status 200 only
analyzeConditionalDependency_Only200(fromCall, toCall) ==
  IF fromCall.status = 200
  THEN << [type |-> "status", field |-> "statusCode", operator |-> "equals",
           value |-> fromCall.status] >>
  ELSE << >>

\* workflow-analyzer.ts:294-308 ; status 0 (and an absent status) is falsy
analyzeConditionalDependency(fromCall, toCall) ==
  IF fromCall.status # 0 /\ fromCall.status >= 200 /\ fromCall.status < 300
  THEN << [type |-> "status", field |-> "statusCode",
           operator |-> "equals", value |-> fromCall.status] >>
  ELSE << >>

\* areSimilarEndpoints comparing the raw pathnames, numeric segments kept
areSimilarEndpoints_NoIdTemplate(call1, call2) ==
  LET url1 == ParseUrl(call1.url)
      url2 == ParseUrl(call2.url)
  IN IF ~url1.ok \/ ~url2.ok THEN FALSE
     ELSE url1.pathname = url2.pathname

\* workflow-analyzer.ts:310-323
areSimilarEndpoints(call1, call2) ==
  LET url1 == ParseUrl(call1.url)
      url2 == ParseUrl(call2.url)
  IN IF ~url1.ok \/ ~url2.ok THEN FALSE              \* catch { return false }
     ELSE ReplaceIds(url1.pathname) = ReplaceIds(url2.pathname)

----------------------------------------------------------------------------
(* analyzeDependencyBetweenCalls, statement by statement.  The accumulator *)
(* holds the locals confidence, dependencyType, dataFlow and conditions.    *)

getTime(call) == call.timestamp

\* workflow-analyzer.ts:134-137
InitialScore ==
  [confidence |-> RatInt(0), dependencyType |-> "sequential",
   dataFlow |-> << >>, conditions |-> << >>]

\* workflow-analyzer.ts:139-141
ScoreUrlSimilarity(acc, fromCall, toCall) ==
  LET urlSimilarity == calculateUrlSimilarity(fromCall.url, toCall.url)
  IN [acc EXCEPT !.confidence = RatAdd(@, RatTimes(urlSimilarity, 20))]

\* workflow-analyzer.ts:143-154
ScoreAuthentication(acc, fromCall, toCall) ==
  IF isAuthenticationFlow(fromCall, toCall)
  THEN LET authTokenFlow == detectAuthTokenFlow(fromCall, toCall)
           withAuth == [acc EXCEPT !.confidence = RatPlus(@, 40),
                                   !.dependencyType = "data_flow"]
       IN IF Len(authTokenFlow) > 0
          THEN [withAuth EXCEPT !.dataFlow = @ \o authTokenFlow,
                                !.confidence = RatPlus(@, 20)]
          ELSE withAuth
  ELSE acc

\* workflow-analyzer.ts:156-160
ScoreCrud(acc, fromCall, toCall) ==
  IF isCrudPattern(fromCall, toCall)
  THEN [acc EXCEPT !.confidence = RatPlus(@, 30), !.dependencyType = "sequential"]
  ELSE acc

\* workflow-analyzer.ts:162-168
ScoreDataFlow(acc, fromCall, toCall) ==
  LET dataflowAnalysis == analyzeDataFlow(fromCall, toCall)
  IN IF Len(dataflowAnalysis) > 0
     THEN [acc EXCEPT !.confidence = RatPlus(@, 25), !.dependencyType = "data_flow",
                      !.dataFlow = @ \o dataflowAnalysis]
     ELSE acc

\* ScoreConditional that adds its points but leaves dependencyType alone
ScoreConditional_KeepsType(acc, fromCall, toCall) ==
  LET conditionalAnalysis == analyzeConditionalDependency(fromCall, toCall)
  IN IF Len(conditionalAnalysis) > 0
     THEN [acc EXCEPT !.confidence = RatPlus(@, 15),
                      !.conditions = @ \o conditionalAnalysis]
     ELSE acc

\* workflow-analyzer.ts:170-176
ScoreConditional(acc, fromCall, toCall) ==
  LET conditionalAnalysis == analyzeConditionalDependency(fromCall, toCall)
  IN IF Len(conditionalAnalysis) > 0
     THEN [acc EXCEPT !.confidence = RatPlus(@, 15), !.dependencyType = "conditional",
                      !.conditions = @ \o conditionalAnalysis]
     ELSE acc

\* workflow-analyzer.ts:178-182
ScoreParallel(acc, fromCall, toCall) ==
  IF getTime(toCall) - getTime(fromCall) < 1000 /\ areSimilarEndpoints(fromCall, toCall)
  THEN [acc EXCEPT !.dependencyType = "parallel", !.confidence = RatPlus(@, 10)]
  ELSE acc

NumStages == 6

\* the k-th scoring statement applied to the locals acc (k = 1 .. NumStages)
ScoreStep(k, acc, fromCall, toCall) ==
  CASE k = 1 -> ScoreUrlSimilarity(acc, fromCall, toCall)
    [] k = 2 -> ScoreAuthentication(acc, fromCall, toCall)
    [] k = 3 -> ScoreCrud(acc, fromCall, toCall)
    [] k = 4 -> ScoreDataFlow(acc, fromCall, toCall)
    [] k = 5 -> ScoreConditional(acc, fromCall, toCall)
    [] OTHER -> ScoreParallel(acc, fromCall, toCall)

\* the locals after the first k scoring statements (k = 0 .. NumStages)
RECURSIVE ScoreAfter(_, _, _)
ScoreAfter(k, fromCall, toCall) ==
  IF k = 0 THEN InitialScore
  ELSE ScoreStep(k, ScoreAfter(k - 1, fromCall, toCall), fromCall, toCall)

\* the locals at entry and after each of the first k scoring statements
RECURSIVE ScoreTrace(_, _, _)
ScoreTrace(k, fromCall, toCall) ==
  IF k = 0 THEN << InitialScore >>
  ELSE CHOOSE tr \in { Append(prev, ScoreStep(k, prev[k], fromCall, toCall))
                       : prev \in { ScoreTrace(k - 1, fromCall, toCall) } } : TRUE

\* MakeDependency without Math.min(confidence, 100)
MakeDependency_NoClamp(acc, fromCall, toCall) ==
  [fromCall       |-> fromCall,
   toCall         |-> toCall,
   timeBetween    |-> getTime(toCall) - getTime(fromCall),
   dependencyType |-> acc.dependencyType,
   confidence     |-> acc.confidence,
   dataFlow       |-> acc.dataFlow,
   conditions     |-> acc.conditions]

\* workflow-analyzer.ts:184-192 ; the returned object, confidence clamped
MakeDependency(acc, fromCall, toCall) ==
  [fromCall       |-> fromCall,
   toCall         |-> toCall,
   timeBetween    |-> getTime(toCall) - getTime(fromCall),
   dependencyType |-> acc.dependencyType,
   confidence     |-> RatMin(acc.confidence, 100),
   dataFlow       |-> acc.dataFlow,
   conditions     |-> acc.conditions]

\* analyzeDependencyBetweenCalls without the window check of line 132
analyzeDependencyBetweenCalls_NoWindow(fromCall, toCall) ==
  LET acc == ScoreAfter(NumStages, fromCall, toCall)
  IN IF RatGE(acc.confidence, MIN_CONFIDENCE_THRESHOLD)
     THEN << MakeDependency(acc, fromCall, toCall) >>
     ELSE << >>

\* analyzeDependencyBetweenCalls accepting only sums above the threshold
analyzeDependencyBetweenCalls_StrictThreshold(fromCall, toCall) ==
  LET timeBetween == getTime(toCall) - getTime(fromCall)
  IN IF timeBetween > MAX_SEQUENCE_GAP THEN << >>
     ELSE LET acc == ScoreAfter(NumStages, fromCall, toCall)
          IN IF RatGE(acc.confidence, MIN_CONFIDENCE_THRESHOLD + 1)
             THEN << MakeDependency(acc, fromCall, toCall) >>
             ELSE << >>

\* workflow-analyzer.ts:128-193 ; << >> is null, << d >> a DetectedDependency
analyzeDependencyBetweenCalls(fromCall, toCall) ==
  LET timeBetween == getTime(toCall) - getTime(fromCall)
  IN IF timeBetween > MAX_SEQUENCE_GAP THEN << >>
     ELSE LET acc == ScoreAfter(NumStages, fromCall, toCall)
          IN IF RatGE(acc.confidence, MIN_CONFIDENCE_THRESHOLD)
             THEN << MakeDependency(acc, fromCall, toCall) >>
             ELSE << >>

\* workflow-analyzer.ts:118-121 ; body of the inner loop
DependencyOfPair(fromCall, toCall) ==
  LET dependency == analyzeDependencyBetweenCalls(fromCall, toCall)
  IN IF Len(dependency) > 0 /\ RatGE(dependency[1].confidence, MIN_CONFIDENCE_THRESHOLD)
     THEN dependency
     ELSE << >>

RECURSIVE InnerLoop(_, _, _)
InnerLoop(calls, i, j) ==
  IF j > Len(calls) THEN << >>
  ELSE DependencyOfPair(calls[i], calls[j]) \o InnerLoop(calls, i, j + 1)

RECURSIVE OuterLoop(_, _)
OuterLoop(calls, i) ==
  IF i > Len(calls) - 1 THEN << >>
  ELSE InnerLoop(calls, i, i + 1) \o OuterLoop(calls, i + 1)

\* detectDependencies remembering the edges it emitted at its last invocation
\* and not emitting them again
detectDependencies_RemembersEmitted(sequence) ==
  SelectSeq(OuterLoop(sequence.calls, 1),
            LAMBDA d : \A k \in DOMAIN dependencies : d \notin Range(dependencies[k]))

\* workflow-analyzer.ts:112-126
detectDependencies(sequence) == OuterLoop(sequence.calls, 1)

----------------------------------------------------------------------------
(* Sequence Grouper *)

\* Array.prototype.sort with the comparator of lines 74-76 (a stable sort)
RECURSIVE InsertSorted(_, _)
InsertSorted(sorted, call) ==
  IF Len(sorted) = 0 THEN << call >>
  ELSE IF getTime(sorted[Len(sorted)]) - getTime(call) > 0
       THEN InsertSorted(SubSeq(sorted, 1, Len(sorted) - 1), call) \o << sorted[Len(sorted)] >>
       ELSE sorted \o << call >>

\* no sort: the calls in the order received
SortByTimestamp_None(calls) == calls

RECURSIVE SortByTimestamp(_)
SortByTimestamp(calls) ==
  IF Len(calls) = 0 THEN << >>
  ELSE InsertSorted(SortByTimestamp(SubSeq(calls, 1, Len(calls) - 1)), calls[Len(calls)])

\* workflow-analyzer.ts:84-89 and 101-106
MakeSequence(currentSequence, tabId) ==
  [calls        |-> currentSequence,
   tabId        |-> tabId,
   sessionStart |-> getTime(currentSequence[1]),
   sessionEnd   |-> getTime(currentSequence[Len(currentSequence)])]

\* line 81 with >= : a gap of exactly MAX_SEQUENCE_GAP splits
StartsNewSequence_Inclusive(lastCallTime, callTime) ==
  Len(lastCallTime) = 0 \/ callTime - lastCallTime[1] >= MAX_SEQUENCE_GAP

\* workflow-analyzer.ts:81 ; lastCallTime is << >> (null) or << time >>
StartsNewSequence(lastCallTime, callTime) ==
  Len(lastCallTime) = 0 \/ callTime - lastCallTime[1] > MAX_SEQUENCE_GAP

\* workflow-analyzer.ts:78-97 ; one iteration of the loop over sortedCalls
GroupStep(st, call) ==
  IF StartsNewSequence(st.lastCallTime, getTime(call))
  THEN [sequences       |-> IF Len(st.currentSequence) > 1
                            THEN st.sequences \o << MakeSequence(st.currentSequence, call.tabId) >>
                            ELSE st.sequences,
        currentSequence |-> << call >>,
        lastCallTime    |-> << getTime(call) >>]
  ELSE [sequences       |-> st.sequences,
        currentSequence |-> st.currentSequence \o << call >>,
        lastCallTime    |-> << getTime(call) >>]

RECURSIVE GroupLoop(_, _)
GroupLoop(sortedCalls, n) ==
  IF n = 0 THEN [sequences |-> << >>, currentSequence |-> << >>, lastCallTime |-> << >>]
  ELSE GroupStep(GroupLoop(sortedCalls, n - 1), sortedCalls[n])

\* groupCallsIntoSequences pushing the last group whenever it is not empty
groupCallsIntoSequences_KeepsSingletons(calls) ==
  LET sortedCalls == SortByTimestamp(calls)
      st == GroupLoop(sortedCalls, Len(sortedCalls))
  IN IF Len(st.currentSequence) > 0
     THEN st.sequences \o << MakeSequence(st.currentSequence, st.currentSequence[1].tabId) >>
     ELSE st.sequences

\* workflow-analyzer.ts:68-110
groupCallsIntoSequences(calls) ==
  LET sortedCalls == SortByTimestamp(calls)
      st == GroupLoop(sortedCalls, Len(sortedCalls))
  IN IF Len(st.currentSequence) > 1
     THEN st.sequences \o << MakeSequence(st.currentSequence, st.currentSequence[1].tabId) >>
     ELSE st.sequences

----------------------------------------------------------------------------
(* Inputs *)

MaxCalls == 3

Header(name) == [name |-> name, value |-> "v"]

ApiCall(id, method, url, timestamp, status, headerNames) ==
  [id |-> id, method |-> method, url |-> url, timestamp |-> timestamp, tabId |-> 1,
   status |-> status,
   requestHeaders |-> [k \in DOMAIN headerNames |-> Header(headerNames[k])]]

\* the calls a tab can save: scenarios of the specification, a chain whose
\* ends are more than MAX_SEQUENCE_GAP apart, equal timestamps, gaps of
\* exactly MAX_SEQUENCE_GAP and MAX_SEQUENCE_GAP + 1, an isolated call
Pool ==
  { ApiCall("c0", "POST", "api.example.com/login", 900, 200, << >>),
    ApiCall("c1", "POST", "https://api.example.com/login", 1000, 200, << >>),
    ApiCall("c2", "GET", "https://api.example.com/profile", 1500, 200, <<"Authorization">>),
    ApiCall("c3", "GET", "https://api.example.com/orders", 11000, 200, <<"Authorization">>),
    ApiCall("c4", "GET", "https://api.example.com/orders", 13000, 200, << >>),
    ApiCall("c5", "GET", "https://api.example.com/users/1", 41000, 200, <<"Authorization">>),
    ApiCall("c6", "GET", "https://api.example.com/users/2", 41200, 200, <<"Accept">>),
    ApiCall("c7", "GET", "https://api.example.com/users/1", 41200, 200, << >>),
    ApiCall("c8", "PUT", "https://api.example.com/users/1/posts", 71200, 0, <<"X-Api-Key">>),
    ApiCall("c9", "GET", "https://api.example.com/profile", 101201, 404, << >>) }

Injective(f) == \A a, b \in DOMAIN f : f[a] = f[b] => a = b

\* every list of at most MaxCalls distinct calls of the pool, in every order
PoolInputs ==
  { f \in UNION { [1..n -> Pool] : n \in 0..MaxCalls } : Injective(f) }

Methods == {"GET", "POST"}
Urls ==
  { "https://api.example.com/login",
    "https://api.example.com/profile",
    "https://api.example.com/orders",
    "https://api.example.com/users/1",
    "https://api.example.com/users/2",
    "https://api.example.com/users/1/posts",
    "https://auth.example.org/users/1",
    "https://auth.example.org/users/2",
    "api.example.com/orders" }
Statuses == {0, 200, 201, 300}
HeaderLists == { << >>, <<"Accept", "Authorization">>, <<"X-Api-Key">> }
Gaps == {0, 200, 500, 1000, 2000, 30000}

\* every pair of calls (origin, target) over the fields the detector reads,
\* in the order getApiCallsByTab returns them (newest first)
PairInputs ==
  { << ApiCall("b", m2, u2, 1000 + g, 200, h2), ApiCall("a", m1, u1, 1000, s1, << >>) >> :
      m1 \in Methods, u1 \in Urls, s1 \in Statuses,
      m2 \in Methods, u2 \in Urls, h2 \in HeaderLists, g \in Gaps }

----------------------------------------------------------------------------
(* The pure stages of an analysis run: lines 47 and 50 *)

DetectAll(seqs) == [k \in DOMAIN seqs |-> detectDependencies(seqs[k])]

\* the Sequence Grouper and the Dependency Detector applied to a list of calls
Detect ==
  /\ phase = "idle"
  /\ sequences' = groupCallsIntoSequences(input)
  /\ dependencies' = DetectAll(sequences')
  /\ phase' = "analyzed"
  /\ UNCHANGED <<apiCalls, input, apiDependencies, apiWorkflows, aborted, clock, runs,
                 workflows, upserted, outcome, response, tasks>>

InitFn ==
  /\ input \in PairInputs \cup PoolInputs
  /\ apiCalls = input
  /\ sequences = << >>
  /\ dependencies = << >>
  /\ phase = "idle"
  /\ apiDependencies = {}
  /\ apiWorkflows = {}
  /\ aborted = FALSE
  /\ clock = 0
  /\ runs = 0
  /\ workflows = << >>
  /\ upserted = << >>
  /\ outcome = "none"
  /\ response = << >>
  /\ tasks = << >>

NextFn == Detect

SpecFn == InitFn /\ [][NextFn]_vars

----------------------------------------------------------------------------
(* Workflow Synthesizer *)

DecimalDigits == "0123456789"

\* template literal `${n}` of a non-negative integer
RECURSIVE NumberToString(_)
NumberToString(n) ==
  IF n < 10 THEN CharAt(DecimalDigits, n + 1)
  ELSE NumberToString(n \div 10) \o CharAt(DecimalDigits, (n % 10) + 1)

\* Array.prototype.join
RECURSIVE Join(_, _)
Join(parts, sep) ==
  IF Len(parts) = 0 THEN ""
  ELSE IF Len(parts) = 1 THEN parts[1]
  ELSE parts[1] \o sep \o Join(Tail(parts), sep)

\* new URL(dependency.fromCall.url) of line 332 throws for some dependency
identifyWorkflowsThrows(deps) ==
  \E n \in DOMAIN deps : ~ParseUrl(deps[n].fromCall.url).ok

\* keys of workflowMap, in insertion order, after the first n dependencies
RECURSIVE OriginsInOrder(_, _)
OriginsInOrder(deps, n) ==
  IF n = 0 THEN << >>
  ELSE LET prev == OriginsInOrder(deps, n - 1)
           baseUrl == ParseUrl(deps[n].fromCall.url).origin
       IN IF baseUrl \in Range(prev) THEN prev ELSE Append(prev, baseUrl)

\* generateWorkflowName testing GET and PUT before POST and GET
generateWorkflowName_UpdateFirst(deps) ==
  LET methods == [n \in DOMAIN deps |-> deps[n].fromCall.method]
      hasAuth == \E n \in DOMAIN deps : isAuthenticationFlow(deps[n].fromCall, deps[n].toCall)
  IN IF hasAuth THEN "Authentication Flow"
     ELSE IF "GET" \in Range(methods) /\ "PUT" \in Range(methods) THEN "Fetch and Update Flow"
     ELSE IF "POST" \in Range(methods) /\ "GET" \in Range(methods) THEN "Create and Fetch Flow"
     ELSE IF "GET" \in Range(methods) /\ "DELETE" \in Range(methods) THEN "Fetch and Delete Flow"
     ELSE "API Workflow (" \o Join(methods, " -> ") \o ")"

\* workflow-analyzer.ts:377-398 ; the separator is " → ", written " -> "
generateWorkflowName(deps) ==
  LET methods == [n \in DOMAIN deps |-> deps[n].fromCall.method]
      hasAuth == \E n \in DOMAIN deps : isAuthenticationFlow(deps[n].fromCall, deps[n].toCall)
  IN IF hasAuth THEN "Authentication Flow"
     ELSE IF "POST" \in Range(methods) /\ "GET" \in Range(methods) THEN "Create and Fetch Flow"
     ELSE IF "GET" \in Range(methods) /\ "PUT" \in Range(methods) THEN "Fetch and Update Flow"
     ELSE IF "GET" \in Range(methods) /\ "DELETE" \in Range(methods) THEN "Fetch and Delete Flow"
     ELSE "API Workflow (" \o Join(methods, " -> ") \o ")"

\* WorkflowStep whose dependency is always the first step
WorkflowStep_DependsOnFirst(baseUrl, dep, index) ==
  [id           |-> "step_" \o NumberToString(index),
   endpointId   |-> baseUrl \o ParseUrl(dep.fromCall.url).pathname \o ":" \o dep.fromCall.method,
   order        |-> index,
   dependencies |-> IF index > 0 THEN << "step_" \o NumberToString(0) >> ELSE << >>,
   conditions   |-> dep.conditions,
   variables    |-> [n \in DOMAIN dep.dataFlow |->
                       [name   |-> dep.dataFlow[n].sourceField,
                        source |-> "response",
                        path   |-> dep.dataFlow[n].sourceField,
                        target |-> "header"]]]

\* workflow-analyzer.ts:350-362 ; the step built for dependencies[index]
WorkflowStep(baseUrl, dep, index) ==
  [id           |-> "step_" \o NumberToString(index),
   endpointId   |-> baseUrl \o ParseUrl(dep.fromCall.url).pathname \o ":" \o dep.fromCall.method,
   order        |-> index,
   dependencies |-> IF index > 0 THEN << "step_" \o NumberToString(index - 1) >> ELSE << >>,
   conditions   |-> dep.conditions,
   variables    |-> [n \in DOMAIN dep.dataFlow |->
                       [name   |-> dep.dataFlow[n].sourceField,
                        source |-> "response",
                        path   |-> dep.dataFlow[n].sourceField,
                        target |-> "header"]]]

\* workflow-analyzer.ts:349-375
createWorkflowFromDependencies(baseUrl, deps, now) ==
  LET steps == [n \in DOMAIN deps |-> WorkflowStep(baseUrl, deps[n], n - 1)]
  IN [name         |-> generateWorkflowName(deps),
      description  |-> "Auto-detected workflow with " \o NumberToString(Len(steps)) \o " steps",
      baseUrl      |-> baseUrl,
      steps        |-> steps,
      frequency    |-> 1,
      lastDetected |-> now]

\* workflow-analyzer.ts:339-344 ; the loop over the first n keys of workflowMap
RECURSIVE WorkflowsOfKeys(_, _, _, _)
WorkflowsOfKeys(keys, deps, n, now) ==
  IF n = 0 THEN << >>
  ELSE LET group == SelectSeq(deps, LAMBDA d : ParseUrl(d.fromCall.url).origin = keys[n])
       IN WorkflowsOfKeys(keys, deps, n - 1, now)
          \o (IF Len(group) >= 2
              THEN << createWorkflowFromDependencies(keys[n], group, now) >>
              ELSE << >>)

\* workflow-analyzer.ts:325-347 ; defined when identifyWorkflowsThrows is false
identifyWorkflows(sequence, deps, now) ==
  LET keys == OriginsInOrder(deps, Len(deps))
  IN WorkflowsOfKeys(keys, deps, Len(keys), now)

----------------------------------------------------------------------------
(* Dependency and workflow store *)

IsWhitespace(c) == c = " "

RECURSIVE WhitespaceRun(_, _)
WhitespaceRun(s, i) ==
  IF i <= Len(s) /\ IsWhitespace(CharAt(s, i)) THEN 1 + WhitespaceRun(s, i + 1) ELSE 0

\* name.replace(/\s+/g, '-'), scanning from position i
RECURSIVE ReplaceWhitespaceFrom(_, _)
ReplaceWhitespaceFrom(s, i) ==
  IF i > Len(s) THEN ""
  ELSE IF WhitespaceRun(s, i) > 0
       THEN "-" \o ReplaceWhitespaceFrom(s, i + WhitespaceRun(s, i))
       ELSE CharAt(s, i) \o ReplaceWhitespaceFrom(s, i + 1)

\* popup.html:1338
WorkflowIdOf(workflow) ==
  workflow.baseUrl \o ":" \o ToLowerCase(ReplaceWhitespaceFrom(workflow.name, 1))

\* upsertApiWorkflow whose update keeps the frequency of the spread workflow
upsertApiWorkflow_SpreadFrequency(table, workflow, now) ==
  LET workflowId == WorkflowIdOf(workflow)
      existing == { r \in table : r.id = workflowId }
  IN IF existing # {}
     THEN { IF r.id = workflowId
            THEN [r EXCEPT !.name = workflow.name,
                           !.description = workflow.description,
                           !.baseUrl = workflow.baseUrl,
                           !.steps = workflow.steps,
                           !.frequency = workflow.frequency,
                           !.lastDetected = now,
                           !.updatedAt = now]
            ELSE r : r \in table }
     ELSE table \cup
          { [id           |-> workflowId,
             name         |-> workflow.name,
             description  |-> workflow.description,
             baseUrl      |-> workflow.baseUrl,
             steps        |-> workflow.steps,
             frequency    |-> IF workflow.frequency # 0 THEN workflow.frequency ELSE 1,
             lastDetected |-> workflow.lastDetected,
             createdAt    |-> now,
             updatedAt    |-> now] }

\* popup.html:1337-1372 ; the table after the upsert
upsertApiWorkflow(table, workflow, now) ==
  LET workflowId == WorkflowIdOf(workflow)
      existing == { r \in table : r.id = workflowId }
  IN IF existing # {}
     THEN { IF r.id = workflowId
            THEN [r EXCEPT !.name = workflow.name,
                           !.description = workflow.description,
                           !.baseUrl = workflow.baseUrl,
                           !.steps = workflow.steps,
                           !.frequency = r.frequency + 1,
                           !.lastDetected = now,
                           !.updatedAt = now]
            ELSE r : r \in table }
     ELSE table \cup
          { [id           |-> workflowId,
             name         |-> workflow.name,
             description  |-> workflow.description,
             baseUrl      |-> workflow.baseUrl,
             steps        |-> workflow.steps,
             frequency    |-> IF workflow.frequency # 0 THEN workflow.frequency ELSE 1,
             lastDetected |-> workflow.lastDetected,
             createdAt    |-> now,
             updatedAt    |-> now] }

\* one call of the storage layer: the table, the row id, the time value
\* passed (avgTimeBetween; 0 for a workflow) and whether the call threw
UpsertCall(tableName, id, value, threw) ==
  [table |-> tableName, id |-> id, value |-> value, threw |-> threw]

\* workflow-analyzer.ts:423-429 ; threw: an exception leaves storeWorkflow
storeWorkflow(table, workflow, now) ==
  [threw   |-> FALSE,                                        \* catch of line 426
   table   |-> upsertApiWorkflow(table, workflow, now),
   upserts |-> << UpsertCall("workflow", WorkflowIdOf(workflow), 0, FALSE) >>]

\* part_002:627 ; an integer column rejects a number with a fraction
IntegerColumnAccepts(r) == r.den = 1

\* the sum of the stored and the new value, not halved
RoundedMean_Sum(a, b) == a + b

\* Math.round((a + b) / 2) for non-negative integers
RoundedMean(a, b) == (a + b + 1) \div 2

\* upsertApiDependency whose update keeps the frequency of the spread dependency
upsertApiDependency_SpreadFrequency(table, dependency, now) ==
  LET dependencyId == dependency.fromEndpointId \o "->" \o dependency.toEndpointId
      existing == { r \in table : r.id = dependencyId }
  IN IF ~IntegerColumnAccepts(dependency.confidence)
     THEN [threw |-> TRUE, table |-> table]
     ELSE IF existing # {}
     THEN [threw |-> FALSE,
           table |-> { IF r.id = dependencyId
                       THEN [r EXCEPT !.fromEndpointId = dependency.fromEndpointId,
                                      !.toEndpointId = dependency.toEndpointId,
                                      !.dependencyType = dependency.dependencyType,
                                      !.confidence = dependency.confidence.num,
                                      !.frequency = dependency.frequency,
                                      !.avgTimeBetween =
                                         RoundedMean(r.avgTimeBetween, dependency.avgTimeBetween),
                                      !.dataFlow = dependency.dataFlow,
                                      !.conditions = dependency.conditions,
                                      !.lastSeen = now]
                       ELSE r : r \in table }]
     ELSE [threw |-> FALSE,
           table |-> table \cup
             { [id             |-> dependencyId,
                fromEndpointId |-> dependency.fromEndpointId,
                toEndpointId   |-> dependency.toEndpointId,
                dependencyType |-> dependency.dependencyType,
                confidence     |-> dependency.confidence.num,
                frequency      |-> IF dependency.frequency # 0 THEN dependency.frequency ELSE 1,
                avgTimeBetween |-> dependency.avgTimeBetween,
                dataFlow       |-> dependency.dataFlow,
                conditions     |-> dependency.conditions,
                lastSeen       |-> dependency.lastSeen,
                createdAt      |-> now] }]

\* popup.html:1389-1427 ; [threw, table] after the upsert
upsertApiDependency(table, dependency, now) ==
  LET dependencyId == dependency.fromEndpointId \o "->" \o dependency.toEndpointId
      existing == { r \in table : r.id = dependencyId }
  IN IF ~IntegerColumnAccepts(dependency.confidence)
     THEN [threw |-> TRUE, table |-> table]
     ELSE IF existing # {}
     THEN [threw |-> FALSE,
           table |-> { IF r.id = dependencyId
                       THEN [r EXCEPT !.fromEndpointId = dependency.fromEndpointId,
                                      !.toEndpointId = dependency.toEndpointId,
                                      !.dependencyType = dependency.dependencyType,
                                      !.confidence = dependency.confidence.num,
                                      !.frequency = r.frequency + 1,
                                      !.avgTimeBetween =
                                         RoundedMean(r.avgTimeBetween, dependency.avgTimeBetween),
                                      !.dataFlow = dependency.dataFlow,
                                      !.conditions = dependency.conditions,
                                      !.lastSeen = now]
                       ELSE r : r \in table }]
     ELSE [threw |-> FALSE,
           table |-> table \cup
             { [id             |-> dependencyId,
                fromEndpointId |-> dependency.fromEndpointId,
                toEndpointId   |-> dependency.toEndpointId,
                dependencyType |-> dependency.dependencyType,
                confidence     |-> dependency.confidence.num,
                frequency      |-> IF dependency.frequency # 0 THEN dependency.frequency ELSE 1,
                avgTimeBetween |-> dependency.avgTimeBetween,
                dataFlow       |-> dependency.dataFlow,
                conditions     |-> dependency.conditions,
                lastSeen       |-> dependency.lastSeen,
                createdAt      |-> now] }]

\* workflow-analyzer.ts:402-403
EndpointIdOf(call) ==
  ParseUrl(call.url).origin \o ParseUrl(call.url).pathname \o ":" \o call.method

\* storeDependency without its try/catch: a throw of the upsert leaves it
storeDependency_NoCatch(table, dependency, now) ==
  IF ~ParseUrl(dependency.fromCall.url).ok \/ ~ParseUrl(dependency.toCall.url).ok
  THEN [threw |-> TRUE, table |-> table, upserts |-> << >>]
  ELSE LET r == upsertApiDependency(table,
                  [fromEndpointId |-> EndpointIdOf(dependency.fromCall),
                   toEndpointId   |-> EndpointIdOf(dependency.toCall),
                   dependencyType |-> dependency.dependencyType,
                   confidence     |-> dependency.confidence,
                   frequency      |-> 1,
                   avgTimeBetween |-> dependency.timeBetween,
                   dataFlow       |-> dependency.dataFlow,
                   conditions     |-> dependency.conditions,
                   lastSeen       |-> now], now)
       IN [threw   |-> r.threw,
           table   |-> r.table,
           upserts |-> << UpsertCall("dependency",
                            EndpointIdOf(dependency.fromCall) \o "->"
                              \o EndpointIdOf(dependency.toCall),
                            dependency.timeBetween, r.threw) >>]

\* workflow-analyzer.ts:400-421 ; threw: an exception leaves storeDependency
storeDependency(table, dependency, now) ==
  IF ~ParseUrl(dependency.fromCall.url).ok \/ ~ParseUrl(dependency.toCall.url).ok
  THEN [threw |-> FALSE, table |-> table, upserts |-> << >>]  \* new URL throws, caught at 418
  ELSE LET r == upsertApiDependency(table,
                  [fromEndpointId |-> EndpointIdOf(dependency.fromCall),
                   toEndpointId   |-> EndpointIdOf(dependency.toCall),
                   dependencyType |-> dependency.dependencyType,
                   confidence     |-> dependency.confidence,
                   frequency      |-> 1,
                   avgTimeBetween |-> dependency.timeBetween,
                   dataFlow       |-> dependency.dataFlow,
                   conditions     |-> dependency.conditions,
                   lastSeen       |-> now], now)
       IN [threw   |-> FALSE,                                 \* catch of line 418
           table   |-> r.table,
           upserts |-> << UpsertCall("dependency",
                            EndpointIdOf(dependency.fromCall) \o "->"
                              \o EndpointIdOf(dependency.toCall),
                            dependency.timeBetween, r.threw) >>]

\* workflow-analyzer.ts:54-56 ; the loop over the first n dependencies, left
\* at the first exception; st = [threw, table, upserts]
RECURSIVE StoreDependencies(_, _, _, _)
StoreDependencies(st, deps, n, now) ==
  IF n = 0 THEN st
  ELSE CHOOSE after \in
         { IF before.threw THEN before
           ELSE CHOOSE x \in { [threw   |-> r.threw,
                                table   |-> r.table,
                                upserts |-> before.upserts \o r.upserts]
                               : r \in { storeDependency(before.table, deps[n], now) } } : TRUE
           : before \in { StoreDependencies(st, deps, n - 1, now) } } : TRUE

\* workflow-analyzer.ts:59-61 ; the loop over the first n workflows
RECURSIVE StoreWorkflows(_, _, _, _)
StoreWorkflows(st, wfs, n, now) ==
  IF n = 0 THEN st
  ELSE CHOOSE after \in
         { IF before.threw THEN before
           ELSE CHOOSE x \in { [threw   |-> r.threw,
                                table   |-> r.table,
                                upserts |-> before.upserts \o r.upserts]
                               : r \in { storeWorkflow(before.table, wfs[n], now) } } : TRUE
           : before \in { StoreWorkflows(st, wfs, n - 1, now) } } : TRUE

----------------------------------------------------------------------------
(* An analysis run *)

MaxRuns == 2
ApiCallsLimit == 100

\* popup.html:1180-1187 ; newest first, rows of equal timestamp in any order
GetApiCallsByTab(table) ==
  LET n == Len(table)
      orders == { f \in [1..n -> 1..n] :
                    /\ Injective(f)
                    /\ \A i \in 1..(n - 1) : table[f[i]].timestamp >= table[f[i + 1]].timestamp }
  IN { SubSeq([i \in 1..n |-> table[f[i]]], 1, Min(n, ApiCallsLimit)) : f \in orders }

\* the locals and tables of a run before its first sequence
RunStart(depTable, wfTable, log) ==
  [dependencies    |-> << >>,
   workflows       |-> << >>,
   aborted         |-> FALSE,
   apiDependencies |-> depTable,
   apiWorkflows    |-> wfTable,
   upserted        |-> log]

\* workflow-analyzer.ts:51-61 ; one sequence once its dependencies are detected;
\* aborted: an exception reached the catch of line 63
ProcessSequence(st, sequence, deps, now) ==
  IF identifyWorkflowsThrows(deps)
  THEN [st EXCEPT !.dependencies = Append(@, deps), !.aborted = TRUE]
  ELSE CHOOSE after \in
         { IF sd.threw
           THEN [dependencies    |-> Append(st.dependencies, deps),
                 workflows       |-> Append(st.workflows, wfs),
                 aborted         |-> TRUE,
                 apiDependencies |-> sd.table,
                 apiWorkflows    |-> st.apiWorkflows,
                 upserted        |-> st.upserted \o sd.upserts]
           ELSE CHOOSE x \in
                  { [dependencies    |-> Append(st.dependencies, deps),
                     workflows       |-> Append(st.workflows, wfs),
                     aborted         |-> sw.threw,
                     apiDependencies |-> sd.table,
                     apiWorkflows    |-> sw.table,
                     upserted        |-> st.upserted \o sd.upserts \o sw.upserts]
                    : sw \in { StoreWorkflows([threw |-> FALSE, table |-> st.apiWorkflows,
                                               upserts |-> << >>], wfs, Len(wfs), now) } } : TRUE
           : wfs \in { identifyWorkflows(sequence, deps, now) },
             sd \in { StoreDependencies([threw |-> FALSE, table |-> st.apiDependencies,
                                         upserts |-> << >>], deps, Len(deps), now) } } : TRUE

\* workflow-analyzer.ts:49-62 ; the loop over the first n sequences
RECURSIVE RunLoop(_, _, _, _)
RunLoop(seqs, n, st, now) ==
  IF n = 0 THEN st
  ELSE CHOOSE after \in
         { IF before.aborted THEN before
           ELSE CHOOSE r \in { ProcessSequence(before, seqs[n], deps, now) :
                               deps \in { detectDependencies(seqs[n]) } } : TRUE
           : before \in { RunLoop(seqs, n - 1, st, now) } } : TRUE

\* analyzeApiCallSequences rethrowing what its catch received
Settle_Rethrow(thrown) == IF thrown THEN "rejected" ELSE "fulfilled"

\* workflow-analyzer.ts:42-65 ; the try/catch around the whole body: the
\* promise is fulfilled whether or not an exception was thrown inside
Settle(thrown) == "fulfilled"

\* popup.html:340 ; res.json(savedCall)
SavedResponse(savedCall) == << [status |-> 200, body |-> savedCall.id] >>

\* POST /api/api-calls -> storage.saveApiCall: the row gets timestamp = now(),
\* so timestamps never decrease in insertion order; the analysis the request
\* triggers is not awaited and runs as AnalyzeApiCallSequences
SaveApiCall(c) ==
  /\ Len(apiCalls) < MaxCalls
  /\ \A k \in DOMAIN apiCalls : apiCalls[k].id # c.id /\ apiCalls[k].timestamp <= c.timestamp
  /\ apiCalls' = Append(apiCalls, c)
  /\ response' = SavedResponse(c)
  /\ UNCHANGED <<input, sequences, dependencies, phase,
                 apiDependencies, apiWorkflows, aborted, clock, runs,
                 workflows, upserted, outcome, tasks>>

\* workflow-analyzer.ts:41-66 ; the read of line 43 either rejects (a
\* storage failure, caught at line 63) or returns the calls of the tab
AnalyzeApiCallSequences ==
  /\ runs < MaxRuns
  /\ \/ /\ input' = << >>
        /\ sequences' = << >>
        /\ dependencies' = << >>
        /\ workflows' = << >>
        /\ aborted' = TRUE
        /\ phase' = "read_failed"
        /\ UNCHANGED <<apiDependencies, apiWorkflows, upserted>>
     \/ \E calls \in GetApiCallsByTab(apiCalls) :
       /\ phase' = "analyzed"
       /\ input' = calls
       /\ IF Len(calls) < 2
          THEN /\ sequences' = << >>
               /\ dependencies' = << >>
               /\ workflows' = << >>
               /\ aborted' = FALSE
               /\ UNCHANGED <<apiDependencies, apiWorkflows, upserted>>
          ELSE \E seqs \in { groupCallsIntoSequences(calls) } :
               \E st \in { RunLoop(seqs, Len(seqs),
                                   RunStart(apiDependencies, apiWorkflows, upserted),
                                   clock + 1) } :
                  /\ sequences' = seqs
                  /\ dependencies' = st.dependencies
                  /\ workflows' = st.workflows
                  /\ aborted' = st.aborted
                  /\ apiDependencies' = st.apiDependencies
                  /\ apiWorkflows' = st.apiWorkflows
                  /\ upserted' = st.upserted
  /\ outcome' = Settle(aborted')
  /\ clock' = clock + 1
  /\ runs' = runs + 1
  /\ UNCHANGED <<apiCalls, response, tasks>>

Init ==
  /\ apiCalls = << >>
  /\ input = << >>
  /\ sequences = << >>
  /\ dependencies = << >>
  /\ phase = "idle"
  /\ apiDependencies = {}
  /\ apiWorkflows = {}
  /\ aborted = FALSE
  /\ clock = 0
  /\ runs = 0
  /\ workflows = << >>
  /\ upserted = << >>
  /\ outcome = "none"
  /\ response = << >>
  /\ tasks = << >>

Next ==
  \/ \E c \in Pool : SaveApiCall(c)
  \/ AnalyzeApiCallSequences

Spec == Init /\ [][Next]_vars

----------------------------------------------------------------------------
(* The stores under sequences of storeDependency / storeWorkflow calls *)

MaxUpserts == 3

StoreGaps == {0, 500, 30000}

\* origins of edges: the login call, and a call whose edge to its sub-resource
\* has a confidence with a fraction (URL similarity 2/3)
LoginCall == ApiCall("s0", "POST", "https://api.example.com/login", 1000, 200, << >>)
UserCall == ApiCall("s1", "GET", "https://api.example.com/users/1", 1000, 200, << >>)

\* the calls an edge is stored to, g ms after its origin
StoreTargets(g) ==
  { ApiCall("s2", "GET", "https://api.example.com/profile", 1000 + g, 200, <<"Authorization">>),
    ApiCall("s3", "GET", "https://api.example.com/orders", 1000 + g, 200, <<"Authorization">>) }

\* the edges the detector emits for these pairs
UserEdges ==
  Range(analyzeDependencyBetweenCalls(UserCall,
          ApiCall("s4", "PUT", "https://api.example.com/users/1/posts", 1500, 200, << >>)))
StoreEdges ==
  UNION { Range(analyzeDependencyBetweenCalls(LoginCall, t)) :
            t \in UNION { StoreTargets(g) : g \in StoreGaps } }
  \cup UserEdges

\* the workflows the synthesizer emits for a first edge (the user edge, or a
\* login edge of gap 0) followed by any of the edges; lastDetected is set
\* when the workflow is created
StoreWorkflowTemplates ==
  UNION { Range(identifyWorkflows(<< >>, << d1, d2 >>, 0)) :
            d1 \in UserEdges \cup UNION { Range(analyzeDependencyBetweenCalls(LoginCall, t)) :
                                            t \in StoreTargets(0) },
            d2 \in StoreEdges }
StoreWorkflowInputs(now) ==
  { [w EXCEPT !.lastDetected = now] : w \in StoreWorkflowTemplates }

\* workflow-analyzer.ts:55 ; await this.storeDependency(dependency)
StoreDependency(d) ==
  /\ Len(upserted) < MaxUpserts
  /\ \E r \in { storeDependency(apiDependencies, d, clock + 1) } :
       /\ apiDependencies' = r.table
       /\ upserted' = upserted \o r.upserts
  /\ clock' = clock + 1
  /\ UNCHANGED <<apiCalls, input, sequences, dependencies, phase, apiWorkflows,
                 aborted, runs, workflows, outcome, response, tasks>>

\* workflow-analyzer.ts:60 ; await this.storeWorkflow(workflow)
StoreWorkflow(w) ==
  /\ Len(upserted) < MaxUpserts
  /\ \E r \in { storeWorkflow(apiWorkflows, w, clock + 1) } :
       /\ apiWorkflows' = r.table
       /\ upserted' = upserted \o r.upserts
  /\ clock' = clock + 1
  /\ UNCHANGED <<apiCalls, input, sequences, dependencies, phase, apiDependencies,
                 aborted, runs, workflows, outcome, response, tasks>>

NextStore ==
  \/ \E d \in StoreEdges : StoreDependency(d)
  \/ \E w \in StoreWorkflowInputs(clock + 1) : StoreWorkflow(w)

SpecStore == Init /\ [][NextStore]_vars

----------------------------------------------------------------------------
(* The Workflow Synthesizer on lists of accepted edges *)

MaxEdges == 4

\* a call to a resource and a later call to its sub-resource, same origin
ResourceCall(method, origin) ==
  ApiCall("r", method, origin \o "/users/1", 1000, 200, << >>)
SubResourceCall(method, origin) ==
  ApiCall("p", method, origin \o "/users/1/posts", 1500, 200, << >>)

ProfileCall ==
  ApiCall("q", "GET", "https://api.example.com/profile", 1500, 200, <<"Authorization">>)

\* the accepted edges the lists are made of: CRUD pairs on two origins, the
\* login/profile edge, and an edge whose origin call has a URL without scheme
WfEdges ==
  UNION ( { Range(analyzeDependencyBetweenCalls(ResourceCall(m[1], "https://api.example.com"),
                                                SubResourceCall(m[2], "https://api.example.com")))
            : m \in { <<"POST", "GET">>, <<"GET", "PUT">>, <<"PUT", "GET">>, <<"DELETE", "GET">> } }
          \cup
          { Range(analyzeDependencyBetweenCalls(ResourceCall(m[1], "https://shop.example.org"),
                                                SubResourceCall(m[2], "https://shop.example.org")))
            : m \in { <<"POST", "GET">>, <<"GET", "PUT">> } }
          \cup
          { Range(analyzeDependencyBetweenCalls(LoginCall, ProfileCall)),
            Range(analyzeDependencyBetweenCalls(
                    ApiCall("u", "POST", "api.example.com/login", 1000, 200, << >>),
                    ProfileCall)) } )

\* every list of at most MaxEdges of these edges
WfEdgeLists == UNION { [1..n -> WfEdges] : n \in 0..MaxEdges }

\* workflow-analyzer.ts:52 ; identifyWorkflows on the accepted edges of one
\* sequence (its first parameter is not read); a throw of line 332 leaves it
IdentifyWorkflows ==
  /\ phase = "idle"
  /\ IF identifyWorkflowsThrows(dependencies[1])
     THEN /\ workflows' = << >>
          /\ aborted' = TRUE
     ELSE /\ workflows' = << identifyWorkflows(<< >>, dependencies[1], clock + 1) >>
          /\ aborted' = FALSE
  /\ phase' = "synthesized"
  /\ clock' = clock + 1
  /\ UNCHANGED <<apiCalls, input, sequences, dependencies, apiDependencies, apiWorkflows,
                 runs, upserted, outcome, response, tasks>>

InitWf ==
  /\ dependencies \in { << deps >> : deps \in WfEdgeLists }
  /\ apiCalls = << >>
  /\ input = << >>
  /\ sequences = << >>
  /\ phase = "idle"
  /\ apiDependencies = {}
  /\ apiWorkflows = {}
  /\ aborted = FALSE
  /\ clock = 0
  /\ runs = 0
  /\ workflows = << >>
  /\ upserted = << >>
  /\ outcome = "none"
  /\ response = << >>
  /\ tasks = << >>

NextWf == IdentifyWorkflows

SpecWf == InitWf /\ [][NextWf]_vars

----------------------------------------------------------------------------
(* Repeated runs over a stored call set that does not change *)

\* the calls of a tab in the order they were saved: a login and a profile
\* call, and more than MAX_SEQUENCE_GAP later a login call whose URL has no
\* scheme, the login call and the profile call again
RunTimeline ==
  << ApiCall("r1", "POST", "https://api.example.com/login", 1000, 200, << >>),
     ApiCall("r2", "GET", "https://api.example.com/profile", 1500, 200, <<"Authorization">>),
     ApiCall("r3", "POST", "api.example.com/login", 40000, 200, << >>),
     ApiCall("r4", "POST", "https://api.example.com/login", 40100, 200, << >>),
     ApiCall("r5", "GET", "https://api.example.com/profile", 40500, 200, <<"Authorization">>) >>

\* the calls of the timeline whose position is in keep, in saving order
KeepCalls(keep) == SelectSeq(RunTimeline, LAMBDA c : \E n \in keep : RunTimeline[n] = c)

\* every stored call set made of calls of the timeline
RunScenarios == { KeepCalls(keep) : keep \in SUBSET DOMAIN RunTimeline }

InitRuns ==
  /\ apiCalls \in RunScenarios
  /\ input = << >>
  /\ sequences = << >>
  /\ dependencies = << >>
  /\ phase = "idle"
  /\ apiDependencies = {}
  /\ apiWorkflows = {}
  /\ aborted = FALSE
  /\ clock = 0
  /\ runs = 0
  /\ workflows = << >>
  /\ upserted = << >>
  /\ outcome = "none"
  /\ response = << >>
  /\ tasks = << >>

NextRuns == AnalyzeApiCallSequences

SpecRuns == InitRuns /\ [][NextRuns]_vars

----------------------------------------------------------------------------
(* Runs that overlap: every await of a run is a step of its own *)

\* popup.html:1339-1343, 1392-1395 ; select ... where id = ...
SelectById(table, id) == { r \in table : r.id = id }

\* workflow-analyzer.ts:405-415 ; the record storeDependency hands to the store
DependencyDataOf(dependency, now) ==
  [fromEndpointId |-> EndpointIdOf(dependency.fromCall),
   toEndpointId   |-> EndpointIdOf(dependency.toCall),
   dependencyType |-> dependency.dependencyType,
   confidence     |-> dependency.confidence,
   frequency      |-> 1,
   avgTimeBetween |-> dependency.timeBetween,
   dataFlow       |-> dependency.dataFlow,
   conditions     |-> dependency.conditions,
   lastSeen       |-> now]

DependencyIdOf(data) == data.fromEndpointId \o "->" \o data.toEndpointId

\* popup.html:1397-1408 ; update ... where id = ..., from the row read before
UpdateApiDependency(table, existing, dependency, now) ==
  LET dependencyId == DependencyIdOf(dependency)
      existingDependency == CHOOSE r \in existing : TRUE
  IN { IF r.id = dependencyId
       THEN [r EXCEPT !.fromEndpointId = dependency.fromEndpointId,
                      !.toEndpointId = dependency.toEndpointId,
                      !.dependencyType = dependency.dependencyType,
                      !.confidence = dependency.confidence.num,
                      !.frequency = existingDependency.frequency + 1,
                      !.avgTimeBetween =
                         RoundedMean(existingDependency.avgTimeBetween,
                                     dependency.avgTimeBetween),
                      !.dataFlow = dependency.dataFlow,
                      !.conditions = dependency.conditions,
                      !.lastSeen = now]
       ELSE r : r \in table }

\* an insert that does not look at the primary key
InsertRow_NoPrimaryKey(table, row) == [threw |-> FALSE, table |-> table \cup {row}]

\* part_002:594, 623 ; id is the primary key: an insert of an id the table
\* holds is rejected
InsertRow(table, row) ==
  IF SelectById(table, row.id) # {}
  THEN [threw |-> TRUE, table |-> table]
  ELSE [threw |-> FALSE, table |-> table \cup {row}]

\* an update that reads the row again when it writes
WriteApiDependency_ReadsAgain(table, existing, dependency, now) ==
  upsertApiDependency(table, dependency, now)

\* popup.html:1397-1426 ; the write that follows the select: [threw, table]
WriteApiDependency(table, existing, dependency, now) ==
  IF ~IntegerColumnAccepts(dependency.confidence)
  THEN [threw |-> TRUE, table |-> table]
  ELSE IF existing # {}
  THEN [threw |-> FALSE, table |-> UpdateApiDependency(table, existing, dependency, now)]
  ELSE InsertRow(table,
         [id             |-> DependencyIdOf(dependency),
          fromEndpointId |-> dependency.fromEndpointId,
          toEndpointId   |-> dependency.toEndpointId,
          dependencyType |-> dependency.dependencyType,
          confidence     |-> dependency.confidence.num,
          frequency      |-> IF dependency.frequency # 0 THEN dependency.frequency ELSE 1,
          avgTimeBetween |-> dependency.avgTimeBetween,
          dataFlow       |-> dependency.dataFlow,
          conditions     |-> dependency.conditions,
          lastSeen       |-> dependency.lastSeen,
          createdAt      |-> now])

\* popup.html:1345-1370 ; the write that follows the select: [threw, table]
WriteApiWorkflow(table, existing, workflow, now) ==
  LET workflowId == WorkflowIdOf(workflow)
      existingWorkflow == CHOOSE r \in existing : TRUE
  IN IF existing # {}
     THEN [threw |-> FALSE,
           table |-> { IF r.id = workflowId
                       THEN [r EXCEPT !.name = workflow.name,
                                      !.description = workflow.description,
                                      !.baseUrl = workflow.baseUrl,
                                      !.steps = workflow.steps,
                                      !.frequency = existingWorkflow.frequency + 1,
                                      !.lastDetected = now,
                                      !.updatedAt = now]
                       ELSE r : r \in table }]
     ELSE InsertRow(table,
            [id           |-> workflowId,
             name         |-> workflow.name,
             description  |-> workflow.description,
             baseUrl      |-> workflow.baseUrl,
             steps        |-> workflow.steps,
             frequency    |-> IF workflow.frequency # 0 THEN workflow.frequency ELSE 1,
             lastDetected |-> workflow.lastDetected,
             createdAt    |-> now,
             updatedAt    |-> now])

\* one await of the store loops: the dependency or the workflow to store
StoreItem(kind, data) == [kind |-> kind, data |-> data]
ItemId(item) ==
  IF item.kind = "dependency" THEN DependencyIdOf(item.data) ELSE WorkflowIdOf(item.data)
ItemValue(item) == IF item.kind = "dependency" THEN item.data.avgTimeBetween ELSE 0

\* workflow-analyzer.ts:54-61 ; the store calls of one sequence, in order; a
\* dependency whose endpoint ids cannot be built never reaches the store
ItemsOfSequence(deps, wfs, now) ==
  LET stored == SelectSeq(deps, LAMBDA d : ParseUrl(d.fromCall.url).ok
                                           /\ ParseUrl(d.toCall.url).ok)
  IN [n \in DOMAIN stored |-> StoreItem("dependency", DependencyDataOf(stored[n], now))]
     \o [n \in DOMAIN wfs |-> StoreItem("workflow", wfs[n])]

\* workflow-analyzer.ts:49-62 ; the store calls of the first n sequences, up
\* to the sequence on which identifyWorkflows throws
RECURSIVE PendingLoop(_, _, _)
PendingLoop(seqs, n, now) ==
  IF n = 0 THEN [items |-> << >>, aborted |-> FALSE]
  ELSE CHOOSE after \in
         { IF before.aborted THEN before
           ELSE IF identifyWorkflowsThrows(deps)
           THEN [items |-> before.items, aborted |-> TRUE]
           ELSE [items   |-> before.items
                               \o ItemsOfSequence(deps, identifyWorkflows(seqs[n], deps, now), now),
                 aborted |-> FALSE]
           : before \in { PendingLoop(seqs, n - 1, now) },
             deps \in { detectDependencies(seqs[n]) } } : TRUE

\* workflow-analyzer.ts:44-62 ; what a run that read calls goes on to store
PendingOf(calls, now) ==
  IF Len(calls) < 2 THEN << >>
  ELSE PendingLoop(groupCallsIntoSequences(calls),
                   Len(groupCallsIntoSequences(calls)), now).items

\* the calls of the clients: a call of tab 1 saved earlier, whose run has
\* ended, and the calls posted next, in this order: a call without tabId
\* (tabId: data.tabId || 0) and two calls of tab 1 to the same endpoint, all
\* saved within one millisecond
TabCall(id, timestamp, tabId) ==
  [ApiCall(id, "GET", "https://api.example.com/users/1", timestamp, 200, << >>)
     EXCEPT !.tabId = tabId]
SavedEarlier == << TabCall("a1", 1000, 1) >>
PostedCalls ==
  << TabCall("z", 1000, 0), TabCall("a2", 1000, 1), TabCall("a3", 1000, 1) >>

\* popup.html:1180-1187 ; where tabId = ...
CallsOfTab(table, tabId) == SelectSeq(table, LAMBDA c : c.tabId = tabId)

\* a handler that awaits the run before it answers
NewTask_Awaited(savedCall) ==
  [tabId |-> savedCall.tabId, startedBy |-> savedCall.id, pc |-> "done",
   read |-> {}, pending |-> << >>, existing |-> {}]

\* a run of analyzeApiCallSequences(tabId) whose read has been issued
NewTask(savedCall) ==
  [tabId |-> savedCall.tabId, startedBy |-> savedCall.id, pc |-> "reading",
   read |-> {}, pending |-> << >>, existing |-> {}]

\* the number of calls posted so far: a call without tabId is never
\* cleared, and every other call started a run
NumPosted ==
  Cardinality({ n \in DOMAIN PostedCalls :
                  \/ \E k \in DOMAIN apiCalls : apiCalls[k].id = PostedCalls[n].id
                  \/ \E k \in DOMAIN tasks : tasks[k].startedBy = PostedCalls[n].id })

\* popup.html:301-343 ; POST /api/api-calls: the call is saved with
\* timestamp = now(), the run is started when savedCall.tabId is truthy and
\* is not awaited, and the saved call is the response
PostApiCall(c) ==
  /\ NumPosted < Len(PostedCalls)
  /\ c = PostedCalls[NumPosted + 1]
  /\ apiCalls' = Append(apiCalls, c)
  /\ tasks' = IF c.tabId # 0 THEN Append(tasks, NewTask(c)) ELSE tasks
  /\ response' = SavedResponse(c)
  /\ UNCHANGED <<input, sequences, dependencies, phase, apiDependencies, apiWorkflows,
                 aborted, clock, runs, workflows, upserted, outcome>>

\* popup.html:357-369, 1197-1199 ; DELETE /api/api-calls/:tabId
ClearApiCallsForTab(tabId) ==
  /\ apiCalls' = SelectSeq(apiCalls, LAMBDA c : c.tabId # tabId)
  /\ UNCHANGED <<input, sequences, dependencies, phase, apiDependencies, apiWorkflows,
                 aborted, clock, runs, workflows, upserted, outcome, response, tasks>>

\* the position of a run after one of its store calls; read: the ids of the
\* calls the run is working on
AfterItem(task) ==
  [task EXCEPT !.pending = Tail(@), !.existing = {},
               !.read = IF Len(task.pending) > 1 THEN @ ELSE {},
               !.pc = IF Len(task.pending) > 1 THEN "select" ELSE "done"]

\* workflow-analyzer.ts:43-52 ; await storage.getApiCallsByTab(tabId) of the
\* run k resolves and the stages follow (a read that rejects ends the run as
\* a read of fewer than 2 calls does)
ReadCalls(k) ==
  /\ tasks[k].pc = "reading"
  /\ \E calls \in GetApiCallsByTab(CallsOfTab(apiCalls, tasks[k].tabId)) :
     \E items \in { PendingOf(calls, clock + 1) } :
          tasks' = [tasks EXCEPT ![k].read = IF Len(items) > 0
                                             THEN { calls[n].id : n \in DOMAIN calls }
                                             ELSE {},
                                 ![k].pending = items,
                                 ![k].pc = IF Len(items) > 0 THEN "select" ELSE "done"]
  /\ UNCHANGED <<apiCalls, input, sequences, dependencies, phase, apiDependencies,
                 apiWorkflows, aborted, clock, runs, workflows, upserted, outcome, response>>

\* popup.html:1339-1343, 1392-1395 ; the select of the upsert of the run k
SelectExisting(k) ==
  /\ tasks[k].pc = "select"
  /\ LET item == Head(tasks[k].pending)
         table == IF item.kind = "dependency" THEN apiDependencies ELSE apiWorkflows
     IN tasks' = [tasks EXCEPT ![k].existing = SelectById(table, ItemId(item)),
                               ![k].pc = "write"]
  /\ UNCHANGED <<apiCalls, input, sequences, dependencies, phase, apiDependencies,
                 apiWorkflows, aborted, clock, runs, workflows, upserted, outcome, response>>

\* popup.html:1345-1370, 1397-1426 ; the update or insert of the upsert of
\* the run k; a rejected write is caught in storeDependency / storeWorkflow
WriteRow(k) ==
  /\ tasks[k].pc = "write"
  /\ LET item == Head(tasks[k].pending) IN
     IF item.kind = "dependency"
     THEN \E r \in { WriteApiDependency(apiDependencies, tasks[k].existing,
                                        item.data, clock + 1) } :
            /\ apiDependencies' = r.table
            /\ upserted' = Append(upserted,
                 UpsertCall("dependency", ItemId(item), ItemValue(item), r.threw))
            /\ UNCHANGED apiWorkflows
     ELSE \E r \in { WriteApiWorkflow(apiWorkflows, tasks[k].existing,
                                      item.data, clock + 1) } :
            /\ apiWorkflows' = r.table
            /\ upserted' = Append(upserted,
                 UpsertCall("workflow", ItemId(item), ItemValue(item), r.threw))
            /\ UNCHANGED apiDependencies
  /\ tasks' = [tasks EXCEPT ![k] = AfterItem(@)]
  /\ UNCHANGED <<apiCalls, input, sequences, dependencies, phase, aborted, clock, runs,
                 workflows, outcome, response>>

NextAsync ==
  \/ \E c \in Range(PostedCalls) : PostApiCall(c)
  \/ ClearApiCallsForTab(1)
  \/ \E k \in DOMAIN tasks : ReadCalls(k)
  \/ \E k \in DOMAIN tasks : SelectExisting(k)
  \/ \E k \in DOMAIN tasks : WriteRow(k)

InitAsync ==
  /\ apiCalls = SavedEarlier
  /\ input = << >>
  /\ sequences = << >>
  /\ dependencies = << >>
  /\ phase = "idle"
  /\ apiDependencies = {}
  /\ apiWorkflows = {}
  /\ aborted = FALSE
  /\ clock = 0
  /\ runs = 0
  /\ workflows = << >>
  /\ upserted = << >>
  /\ outcome = "none"
  /\ response = SavedResponse(SavedEarlier[1])
  /\ tasks = << >>

SpecAsync == InitAsync /\ [][NextAsync]_vars

----------------------------------------------------------------------------
(* Reading the result of a run *)

\* <<k, i, j>>: the ordered pair (calls[i], calls[j]), i < j, of sequence k
AnalysedPairs ==
  { p \in UNION { { <<k, i, j>> : i \in 1..Len(sequences[k].calls),
                                  j \in 1..Len(sequences[k].calls) }
                  : k \in DOMAIN dependencies } : p[2] < p[3] }

FromOf(p) == sequences[p[1]].calls[p[2]]
ToOf(p) == sequences[p[1]].calls[p[3]]
GapOf(p) == ToOf(p).timestamp - FromOf(p).timestamp

\* the edges emitted for the pair p
EdgesOf(p) ==
  { d \in Range(dependencies[p[1]]) : d.fromCall = FromOf(p) /\ d.toCall = ToOf(p) }

AllEdges == UNION { Range(dependencies[k]) : k \in DOMAIN dependencies }

ParallelFires(f, t) == t.timestamp - f.timestamp < 1000 /\ areSimilarEndpoints(f, t)
ConditionalFires(f, t) == Len(analyzeConditionalDependency(f, t)) > 0
IdFlowFires(f, t) == Len(analyzeDataFlow(f, t)) > 0

\* the weights of the signal table, summed over the signals that fire
SignalSum(f, t) ==
  RatPlus(RatTimes(calculateUrlSimilarity(f.url, t.url), 20),
          (IF isAuthenticationFlow(f, t)
           THEN 40 + (IF Len(detectAuthTokenFlow(f, t)) > 0 THEN 20 ELSE 0) ELSE 0)
          + (IF isCrudPattern(f, t) THEN 30 ELSE 0)
          + (IF IdFlowFires(f, t) THEN 25 ELSE 0)
          + (IF ConditionalFires(f, t) THEN 15 ELSE 0)
          + (IF ParallelFires(f, t) THEN 10 ELSE 0))

----------------------------------------------------------------------------
(* Scenarios of the specification *)

PathOf(call) == ParseUrl(call.url).pathname
SameHost(f, t) ==
  ParseUrl(f.url).ok /\ ParseUrl(t.url).ok
  /\ ParseUrl(f.url).hostname = ParseUrl(t.url).hostname
HasHeader(call, name) == \E k \in DOMAIN call.requestHeaders : call.requestHeaders[k].name = name

\* [POST /login (200), GET /profile (200, Authorization)], same host, 500 ms apart
LoginProfile(f, t) ==
  /\ f.method = "POST" /\ f.status = 200 /\ t.method = "GET" /\ t.status = 200
  /\ SameHost(f, t) /\ PathOf(f) = "/login" /\ PathOf(t) = "/profile"
  /\ HasHeader(t, "Authorization")
  /\ t.timestamp - f.timestamp = 500

\* [POST /orders (201), GET /orders (200)], same host, 2 s apart
OrdersCreateFetch(f, t) ==
  /\ f.method = "POST" /\ f.status = 201 /\ t.method = "GET" /\ t.status = 200
  /\ SameHost(f, t) /\ PathOf(f) = "/orders" /\ PathOf(t) = "/orders"
  /\ t.timestamp - f.timestamp = 2000

\* /users/1 then /users/2, same method, same host, 200 ms apart
UsersBurst(f, t) ==
  /\ f.method = t.method
  /\ SameHost(f, t) /\ PathOf(f) = "/users/1" /\ PathOf(t) = "/users/2"
  /\ t.timestamp - f.timestamp = 200

----------------------------------------------------------------------------
(* Claims *)

\* C1: for every ordered pair of calls of a sequence at most 30000 ms apart,
\* an edge is emitted if and only if the summed weights of the signals that
\* fire reach 70, and the emitted confidence is min(sum, 100).
C1_EdgeIffWeightedSum ==
  phase = "analyzed" =>
    \A p \in AnalysedPairs :
      GapOf(p) <= 30000 =>
        LET sum == SignalSum(FromOf(p), ToOf(p)) IN
        /\ (EdgesOf(p) # {}) <=> RatGE(sum, 70)
        /\ \A d \in EdgesOf(p) : d.confidence = RatMin(sum, 100)

\* C1 witness: one run emits an edge whose sum exceeds 100 (clamped) and
\* leaves out a pair inside the window whose sum is below 70.
C1_Witness ==
  /\ phase = "analyzed"
  /\ \E p \in AnalysedPairs :
       /\ EdgesOf(p) # {}
       /\ ~RatLE(SignalSum(FromOf(p), ToOf(p)), 100)
  /\ \E p \in AnalysedPairs :
       /\ GapOf(p) <= 30000
       /\ EdgesOf(p) = {}
       /\ RatGE(SignalSum(FromOf(p), ToOf(p)), 1)

AbsGap(a, b) == IF b.timestamp >= a.timestamp THEN b.timestamp - a.timestamp
               ELSE a.timestamp - b.timestamp

\* C2: no run emits an edge between two calls more than 30000 ms apart, and
\* every stored dependency row joins the endpoints of two saved calls that
\* are at most 30000 ms apart, also when calls further apart share a sequence.
C2_NoEdgeBeyondWindow ==
  /\ \A d \in AllEdges : AbsGap(d.fromCall, d.toCall) <= 30000
  /\ \A r \in apiDependencies :
       \E a, b \in Range(apiCalls) :
          /\ ParseUrl(a.url).ok /\ ParseUrl(b.url).ok
          /\ r.fromEndpointId = EndpointIdOf(a)
          /\ r.toEndpointId = EndpointIdOf(b)
          /\ AbsGap(a, b) <= 30000

\* C2 witness: a run analysed a sequence holding two calls more than
\* 30000 ms apart whose signals sum to 70 or more, and stored an edge.
C2_Witness ==
  /\ phase = "analyzed"
  /\ apiDependencies # {}
  /\ \E p \in AnalysedPairs :
       /\ GapOf(p) > 30000
       /\ RatGE(SignalSum(FromOf(p), ToOf(p)), 70)

\* the type the precedence order of the specification gives the pair
TypeByPrecedence(f, t) ==
  IF ParallelFires(f, t) THEN "parallel"
  ELSE IF ConditionalFires(f, t) THEN "conditional"
  ELSE IF IdFlowFires(f, t) THEN "data_flow"
  ELSE IF isCrudPattern(f, t) THEN "sequential"
  ELSE IF isAuthenticationFlow(f, t) THEN "data_flow"
  ELSE "sequential"

\* C3: the type of an emitted edge is the one set by the last signal that
\* fired in the order auth, CRUD, ID data flow, conditional, parallel, and
\* sequential when none of them fired.
C3_TypeLastWriterWins ==
  phase = "analyzed" =>
    \A p \in AnalysedPairs :
      \A d \in EdgesOf(p) : d.dependencyType = TypeByPrecedence(FromOf(p), ToOf(p))

\* C3 witness: an emitted edge for which the authentication flow, the CRUD
\* pattern and the ID data flow all fired and the last of them decided.
C3_Witness ==
  /\ phase = "analyzed"
  /\ \E p \in AnalysedPairs :
       /\ EdgesOf(p) # {}
       /\ isAuthenticationFlow(FromOf(p), ToOf(p))
       /\ isCrudPattern(FromOf(p), ToOf(p))
       /\ IdFlowFires(FromOf(p), ToOf(p))
       /\ \A d \in EdgesOf(p) : d.dependencyType = "data_flow"

\* C4 (as claimed): the edge emitted for the login/profile scenario has type
\* data_flow.
C4_LoginProfileIsDataFlow ==
  phase = "analyzed" =>
    \A p \in AnalysedPairs :
      LoginProfile(FromOf(p), ToOf(p)) =>
        \A d \in EdgesOf(p) : d.dependencyType = "data_flow"

C6_OrdersIsSequential ==
  phase = "analyzed" =>
    \A p \in AnalysedPairs :
      OrdersCreateFetch(FromOf(p), ToOf(p)) =>
        /\ isCrudPattern(FromOf(p), ToOf(p))
        /\ ScoreAfter(NumStages, FromOf(p), ToOf(p)).dependencyType = "sequential"

\* C7 (as claimed): the users burst yields a dependency of type parallel.
C7_UsersBurstYieldsParallel ==
  phase = "analyzed" =>
    \A p \in AnalysedPairs :
      UsersBurst(FromOf(p), ToOf(p)) =>
        \E d \in EdgesOf(p) : d.dependencyType = "parallel"

\* C7 (amended): for the users burst the type computed for the pair is
\* parallel, and a dependency is yielded, with that type, exactly when the
\* authentication-flow signal fires for the pair as well; otherwise the sum
\* stays below 70 and the detector returns none.
C7_UsersBurstParallelIfEmitted ==
  phase = "analyzed" =>
    \A p \in AnalysedPairs :
      UsersBurst(FromOf(p), ToOf(p)) =>
        /\ ScoreAfter(NumStages, FromOf(p), ToOf(p)).dependencyType = "parallel"
        /\ (EdgesOf(p) # {}) <=> isAuthenticationFlow(FromOf(p), ToOf(p))
        /\ \A d \in EdgesOf(p) : d.dependencyType = "parallel"

\* C7 witness: a users burst with a 2xx origin was analysed and no edge came
\* out of it.
C7_Witness ==
  /\ phase = "analyzed"
  /\ \E p \in AnalysedPairs :
       /\ UsersBurst(FromOf(p), ToOf(p))
       /\ FromOf(p).status = 200
       /\ EdgesOf(p) = {}

\* C8: the confidence of a pair never decreases from one scoring statement
\* to the next, and every emitted confidence lies in [0, 100].
C8_ConfidenceMonotoneAndClamped ==
  phase = "analyzed" =>
    /\ \A p \in AnalysedPairs :
         \A tr \in { ScoreTrace(NumStages, FromOf(p), ToOf(p)) } :
           \A k \in 1..NumStages : RatLeq(tr[k].confidence, tr[k + 1].confidence)
    /\ \A d \in AllEdges : RatGE(d.confidence, 0) /\ RatLE(d.confidence, 100)

\* C8 witness: an emitted edge for which every signal but the parallel burst
\* fired, so that the raw sum exceeds 100.
C8_Witness ==
  /\ phase = "analyzed"
  /\ \E p \in AnalysedPairs :
       /\ EdgesOf(p) # {}
       /\ isAuthenticationFlow(FromOf(p), ToOf(p))
       /\ isCrudPattern(FromOf(p), ToOf(p))
       /\ IdFlowFires(FromOf(p), ToOf(p))
       /\ ConditionalFires(FromOf(p), ToOf(p))
       /\ ~RatLE(ScoreAfter(NumStages, FromOf(p), ToOf(p)).confidence, 100)

\* C9: every returned sequence has at least 2 calls, in ascending timestamp
\* order whatever the order of the input, consecutive calls at most
\* 30000 ms apart.
C9_SequencesSortedAndDense ==
  phase = "analyzed" =>
    \A k \in DOMAIN sequences :
      LET calls == sequences[k].calls IN
      /\ Len(calls) >= 2
      /\ \A i \in 1..(Len(calls) - 1) :
           /\ calls[i].timestamp <= calls[i + 1].timestamp
           /\ calls[i + 1].timestamp - calls[i].timestamp <= 30000

\* C9 witness: a list given newest first comes back as one sequence of 3.
C9_Witness ==
  /\ phase = "analyzed"
  /\ Len(input) = 3
  /\ input[1].timestamp > input[2].timestamp
  /\ input[2].timestamp > input[3].timestamp
  /\ \E k \in DOMAIN sequences : Len(sequences[k].calls) = 3

InSequence(c, k) == c \in Range(sequences[k].calls)
SequencesOf(c) == { k \in DOMAIN sequences : InSequence(c, k) }
\* a and b follow each other in timestamp order: no call lies strictly between
ConsecutiveInTime(a, b) ==
  /\ a # b
  /\ a.timestamp <= b.timestamp
  /\ ~\E c \in Range(input) : a.timestamp < c.timestamp /\ c.timestamp < b.timestamp
HasNeighbour(c) ==
  \E b \in Range(input) :
     b # c /\ b.timestamp - c.timestamp <= 30000 /\ c.timestamp - b.timestamp <= 30000

\* C10: two calls consecutive in timestamp order share a sequence iff their
\* gap is at most 30000 ms; a call is in at most one sequence, once; and it
\* is in none exactly when no other call lies within 30000 ms of it.
C10_GroupingByGap ==
  phase = "analyzed" =>
    /\ \A a, b \in Range(input) :
         ConsecutiveInTime(a, b) =>
           ((SequencesOf(a) \cap SequencesOf(b) # {}) <=> (b.timestamp - a.timestamp <= 30000))
    /\ \A c \in Range(input) :
         /\ Cardinality(SequencesOf(c)) <= 1
         /\ \A k \in SequencesOf(c) :
              Cardinality({ i \in DOMAIN sequences[k].calls : sequences[k].calls[i] = c }) = 1
         /\ (SequencesOf(c) = {}) <=> ~HasNeighbour(c)

\* C10 witness: two calls exactly 30000 ms apart share a sequence while a
\* third call, 30001 ms or more from both, is dropped.
C10_Witness ==
  /\ phase = "analyzed"
  /\ \E a, b, c \in Range(input) :
       /\ b.timestamp - a.timestamp = 30000
       /\ SequencesOf(a) \cap SequencesOf(b) # {}
       /\ SequencesOf(c) = {}

----------------------------------------------------------------------------
(* Claims on the run and the stores *)

\* a step that is an analysis run whose read of the calls succeeded
RunStep == runs' = runs + 1 /\ phase' = "analyzed"

\* the call lists of fewer than 2 calls
ShortCallLists == { << >> } \cup { << c >> : c \in Pool }

\* C11: for a call set of fewer than 2 calls the Sequence Grouper returns
\* no sequences, and a run over such a tab has no sequences, ends without
\* error and makes no dependency or workflow upsert.
C11_FewerThanTwoCalls ==
  /\ [][ (RunStep /\ Len(input') < 2) =>
           /\ sequences' = << >>
           /\ ~aborted'
           /\ outcome' = "fulfilled"
           /\ UNCHANGED <<apiDependencies, apiWorkflows, upserted>> ]_vars
  /\ [](\A calls \in ShortCallLists : groupCallsIntoSequences(calls) = << >>)

\* C11 witness: a run over a tab holding exactly one call has ended.
C11_Witness ==
  /\ phase = "analyzed"
  /\ Len(apiCalls) = 1
  /\ Len(input) = 1
  /\ sequences = << >>
  /\ outcome = "fulfilled"

\* the avgTimeBetween values of the upserts of the identity id that completed
UpsertedValues(id) ==
  LET calls == SelectSeq(upserted,
                 LAMBDA c : c.table = "dependency" /\ c.id = id /\ ~c.threw)
  IN [n \in DOMAIN calls |-> calls[n].value]

RECURSIVE SumOf(_)
SumOf(values) == IF Len(values) = 0 THEN 0 ELSE Head(values) + SumOf(Tail(values))

\* the arithmetic mean of a non-empty list of non-negative integers, rounded
\* to the nearest integer
MeanOf(values) == (2 * SumOf(values) + Len(values)) \div (2 * Len(values))

\* C12 (as claimed): the stored avgTimeBetween of every dependency row is
\* the rounded arithmetic mean of all timeBetween values upserted for its
\* identity so far.
C12_AvgIsRunningMean ==
  \A r \in apiDependencies :
     /\ Len(UpsertedValues(r.id)) > 0
     /\ r.avgTimeBetween = MeanOf(UpsertedValues(r.id))

\* the last call of the storage layer and the one before it
LastCall == upserted[Len(upserted)]
CallBeforeLast == upserted[Len(upserted) - 1]
RowsOf(table, id) == { r \in table : r.id = id }

\* C13: when the same dependency identity has just been upserted twice in a
\* row with the same timeBetween t, the first of the two being the insert,
\* the store holds one row for it with frequency = 2 and avgTimeBetween = t;
\* right after the insert the row has frequency = 1.
C13_TwiceSameTime ==
  /\ (/\ Len(upserted) >= 1
      /\ LastCall.table = "dependency" /\ ~LastCall.threw
      /\ Len(UpsertedValues(LastCall.id)) = 1) =>
        /\ Cardinality(RowsOf(apiDependencies, LastCall.id)) = 1
        /\ \A r \in RowsOf(apiDependencies, LastCall.id) :
              r.frequency = 1 /\ r.avgTimeBetween = LastCall.value
  /\ (/\ Len(upserted) >= 2
      /\ LastCall.table = "dependency" /\ ~LastCall.threw
      /\ CallBeforeLast = LastCall
      /\ Len(UpsertedValues(LastCall.id)) = 2) =>
        /\ Cardinality(RowsOf(apiDependencies, LastCall.id)) = 1
        /\ \A r \in RowsOf(apiDependencies, LastCall.id) :
              r.frequency = 2 /\ r.avgTimeBetween = LastCall.value

\* C13 witness: an identity was inserted and upserted again, 500 ms both
\* times, next to a row of another identity.
C13_Witness ==
  /\ Len(upserted) = 3
  /\ LastCall.table = "dependency" /\ ~LastCall.threw
  /\ CallBeforeLast = LastCall
  /\ LastCall.value = 500
  /\ Len(UpsertedValues(LastCall.id)) = 2
  /\ Cardinality(apiDependencies) = 2

\* the (baseUrl, normalized name) key of a workflow row
KeyOf(r) == WorkflowIdOf([baseUrl |-> r.baseUrl, name |-> r.name])

\* C14: an upsert of a workflow leaves exactly one row for its
\* (baseUrl, normalized name) key: a new row of frequency 1 when the key was
\* absent, else the same row with frequency + 1 and lastDetected refreshed;
\* the rows of the other keys are untouched.
C14_WorkflowUpsert ==
  [][ (Len(upserted') = Len(upserted) + 1
       /\ upserted'[Len(upserted')].table = "workflow") =>
        LET id == upserted'[Len(upserted')].id
            old == RowsOf(apiWorkflows, id)
            new == RowsOf(apiWorkflows', id)
        IN /\ Cardinality(new) = 1
           /\ \A n \in new :
                /\ KeyOf(n) = id
                /\ n.lastDetected = clock'
                /\ old = {} => n.frequency = 1
                /\ \A o \in old : n.frequency = o.frequency + 1
                                  /\ n.lastDetected > o.lastDetected
           /\ apiWorkflows' \ new = apiWorkflows \ old ]_vars

\* C14 witness: two keys are stored and one of them was detected twice.
C14_Witness ==
  /\ Cardinality(apiWorkflows) = 2
  /\ \E r \in apiWorkflows : r.frequency = 2
  /\ Len(upserted) = 3
  /\ \A n \in DOMAIN upserted : upserted[n].table = "workflow"

----------------------------------------------------------------------------
(* Claims on the Workflow Synthesizer *)

\* the workflows emitted for the accepted edges dependencies[k]
EmittedFor(k) == IF k \in DOMAIN workflows THEN workflows[k] ELSE << >>

\* the origins of the fromCalls of a list of edges
OriginsOf(deps) ==
  { ParseUrl(deps[n].fromCall.url).origin :
      n \in { m \in DOMAIN deps : ParseUrl(deps[m].fromCall.url).ok } }

\* the edges of a list whose fromCall has origin o, in the order of the list
GroupOf(deps, o) ==
  SelectSeq(deps, LAMBDA d : ParseUrl(d.fromCall.url).ok /\ ParseUrl(d.fromCall.url).origin = o)

\* C15 (as claimed): for the accepted edges of a sequence, exactly one
\* workflow is emitted for each origin with at least 2 edges and none for an
\* origin with fewer; its steps are the edges of the group, in edge order.
C15_OneWorkflowPerOrigin ==
  phase = "synthesized" =>
    \A k \in DOMAIN dependencies :
      /\ \A o \in OriginsOf(dependencies[k]) :
           LET group == GroupOf(dependencies[k], o)
               ws == SelectSeq(EmittedFor(k), LAMBDA w : w.baseUrl = o)
           IN IF Len(group) >= 2
              THEN /\ Len(ws) = 1
                   /\ Len(ws[1].steps) = Len(group)
                   /\ \A n \in DOMAIN group :
                        /\ ws[1].steps[n].order = n - 1
                        /\ ws[1].steps[n].endpointId =
                             o \o ParseUrl(group[n].fromCall.url).pathname
                               \o ":" \o group[n].fromCall.method
                        /\ ws[1].steps[n].conditions = group[n].conditions
              ELSE Len(ws) = 0
      /\ \A n \in DOMAIN EmittedFor(k) :
           EmittedFor(k)[n].baseUrl \in OriginsOf(dependencies[k])

\* C16: in every synthesized workflow step 0 declares no dependency and
\* step k > 0 declares exactly the id of step k-1; step ids are distinct, so
\* no step depends on itself, on a later step or on more than one step.
C16_StepsLinearChain ==
  phase = "synthesized" =>
    \A k \in DOMAIN workflows : \A n \in DOMAIN workflows[k] :
      LET steps == workflows[k][n].steps IN
      /\ \A i, j \in DOMAIN steps : steps[i].id = steps[j].id => i = j
      /\ \A i \in DOMAIN steps :
           /\ steps[i].order = i - 1
           /\ steps[i].dependencies = IF i = 1 THEN << >> ELSE << steps[i - 1].id >>

\* C16 witness: a workflow of four steps was synthesized.
C16_Witness ==
  /\ phase = "synthesized"
  /\ \E k \in DOMAIN workflows : \E n \in DOMAIN workflows[k] :
       Len(workflows[k][n].steps) = 4

\* the decision list of the workflow names over a set of methods
NameByList(hasAuth, methodSet, generic) ==
  IF hasAuth THEN "Authentication Flow"
  ELSE IF {"POST", "GET"} \subseteq methodSet THEN "Create and Fetch Flow"
  ELSE IF {"GET", "PUT"} \subseteq methodSet THEN "Fetch and Update Flow"
  ELSE IF {"GET", "DELETE"} \subseteq methodSet THEN "Fetch and Delete Flow"
  ELSE generic

HasAuthEdge(group) ==
  \E n \in DOMAIN group : isAuthenticationFlow(group[n].fromCall, group[n].toCall)
FromMethods(group) == [n \in DOMAIN group |-> group[n].fromCall.method]
JoinedMethods(group) ==
  { group[n].fromCall.method : n \in DOMAIN group }
  \cup { group[n].toCall.method : n \in DOMAIN group }
GenericName(group) == "API Workflow (" \o Join(FromMethods(group), " -> ") \o ")"

\* C17 (as claimed): the name is the first match of the list, the method
\* tests being made on the methods of the calls joined by the group's edges.
C17_NameFromJoinedCalls ==
  phase = "synthesized" =>
    \A k \in DOMAIN workflows : \A n \in DOMAIN workflows[k] :
      LET group == GroupOf(dependencies[k], workflows[k][n].baseUrl) IN
      workflows[k][n].name =
        NameByList(HasAuthEdge(group), JoinedMethods(group), GenericName(group))

\* C17 (amended): the name is the first match of the list, the method tests
\* being made on the methods of the origin calls (fromCall) of the group's
\* edges only; the generic name lists these methods in edge order.
C17_NameFromOriginMethods ==
  phase = "synthesized" =>
    \A k \in DOMAIN workflows : \A n \in DOMAIN workflows[k] :
      LET group == GroupOf(dependencies[k], workflows[k][n].baseUrl) IN
      workflows[k][n].name =
        NameByList(HasAuthEdge(group), Range(FromMethods(group)), GenericName(group))

\* C17 witness: a group of two POST -> GET edges got the generic name, and
\* another group in the same list got a name of the decision list.
C17_Witness ==
  /\ phase = "synthesized"
  /\ \E k \in DOMAIN workflows : \E n, m \in DOMAIN workflows[k] :
       /\ workflows[k][n].name = "API Workflow (POST -> POST)"
       /\ JoinedMethods(GroupOf(dependencies[k], workflows[k][n].baseUrl)) = {"POST", "GET"}
       /\ workflows[k][m].name = "Authentication Flow"

----------------------------------------------------------------------------
(* Claims on failures *)

Parseable(call) == ParseUrl(call.url).ok

\* the row of the store for an emitted edge, if there is one
StoredRowsOf(d) ==
  RowsOf(apiDependencies, EndpointIdOf(d.fromCall) \o "->" \o EndpointIdOf(d.toCall))

\* C18 (as claimed): a call with an unparseable URL never aborts the run:
\* after a run that read the calls, the dependencies of every sequence were
\* detected and every accepted dependency between calls of parseable URL
\* whose upsert the store accepts has its row.
C18_UnparseableUrlNeverAborts ==
  (phase = "analyzed" /\ \E k \in DOMAIN input : ~Parseable(input[k])) =>
    /\ ~aborted
    /\ Len(dependencies) = Len(sequences)
    /\ \A k \in DOMAIN sequences :
         /\ k \in DOMAIN dependencies
         /\ dependencies[k] = detectDependencies(sequences[k])
         /\ \A n \in DOMAIN dependencies[k] :
              LET d == dependencies[k][n] IN
              (Parseable(d.fromCall) /\ Parseable(d.toCall)
                 /\ IntegerColumnAccepts(d.confidence)) => StoredRowsOf(d) # {}

\* C19: a run never rejects, whatever failed in it (the read of the calls, a
\* stage, an upsert), and the response of the saving request is the saved
\* call, whether the runs that followed succeeded or failed.
C19_RunNeverPropagates ==
  /\ [](outcome # "rejected")
  /\ [](apiCalls # << >> => response = SavedResponse(apiCalls[Len(apiCalls)]))
  /\ [][ runs' # runs => (outcome' = "fulfilled" /\ response' = response) ]_vars

\* C19 witness: after a saved call was answered, one run failed reading the
\* calls or in a stage, and it was fulfilled.
C19_Witness ==
  /\ phase = "analyzed"
  /\ aborted
  /\ Len(workflows) < Len(dependencies)
  /\ outcome = "fulfilled"
  /\ response = SavedResponse(apiCalls[Len(apiCalls)])

\* the store call of an edge and of a workflow, without its outcome
DependencyCallOf(d) ==
  [table |-> "dependency",
   id    |-> EndpointIdOf(d.fromCall) \o "->" \o EndpointIdOf(d.toCall),
   value |-> d.timeBetween]
WorkflowCallOf(w) == [table |-> "workflow", id |-> WorkflowIdOf(w), value |-> 0]
CallOf(u) == [table |-> u.table, id |-> u.id, value |-> u.value]

\* the store calls of one sequence when no upsert fails: its edges whose
\* endpoint ids can be built, in order, then its workflows, in order
CallsOfSequence(deps, wfs) ==
  LET stored == SelectSeq(deps, LAMBDA d : Parseable(d.fromCall) /\ Parseable(d.toCall))
  IN [n \in DOMAIN stored |-> DependencyCallOf(stored[n])]
     \o [n \in DOMAIN wfs |-> WorkflowCallOf(wfs[n])]

\* the store calls of the first n sequences that reached the store loops
RECURSIVE CallsOfRun(_, _, _)
CallsOfRun(depLists, wfLists, n) ==
  IF n = 0 THEN << >>
  ELSE CallsOfRun(depLists, wfLists, n - 1) \o CallsOfSequence(depLists[n], wfLists[n])

----------------------------------------------------------------------------
(* Claims on the Dependency Detector across invocations and signals *)

IsSuccessStatus(status) == status >= 200 /\ status <= 299

\* C28: every emitted edge whose origin call has a status in 200..299 has
\* type conditional or parallel; an emitted edge of type data_flow or
\* sequential has an origin status outside 200..299 and a pair for which
\* the parallel-burst signal did not fire.
C28_SuccessOriginConditionalOrParallel ==
  phase = "analyzed" =>
    \A d \in AllEdges :
      /\ IsSuccessStatus(d.fromCall.status) =>
           d.dependencyType \in {"conditional", "parallel"}
      /\ d.dependencyType \in {"data_flow", "sequential"} =>
           /\ ~IsSuccessStatus(d.fromCall.status)
           /\ ~ParallelFires(d.fromCall, d.toCall)

\* C28 witness: an edge of origin status 201 on which the authentication
\* signal had set data_flow was emitted as conditional.
C28_Witness ==
  /\ phase = "analyzed"
  /\ \E d \in AllEdges :
       /\ d.fromCall.status = 201
       /\ isAuthenticationFlow(d.fromCall, d.toCall)
       /\ d.dependencyType = "conditional"

----------------------------------------------------------------------------
(* Claims on the stored average *)

MinOf(values) == CHOOSE v \in Range(values) : \A w \in Range(values) : v <= w
MaxOf(values) == CHOOSE v \in Range(values) : \A w \in Range(values) : v >= w

\* C29: after any sequence of upserts made one after the other, the stored
\* avgTimeBetween of a dependency row lies between the smallest and the
\* largest timeBetween upserted for its identity; the detector's edges have
\* a timeBetween in [0, 30000], and so has the stored average.
C29_AvgWithinUpsertedRange ==
  /\ \A d \in StoreEdges : d.timeBetween >= 0 /\ d.timeBetween <= MAX_SEQUENCE_GAP
  /\ \A r \in apiDependencies :
       /\ Len(UpsertedValues(r.id)) > 0
       /\ MinOf(UpsertedValues(r.id)) <= r.avgTimeBetween
       /\ r.avgTimeBetween <= MaxOf(UpsertedValues(r.id))
       /\ r.avgTimeBetween >= 0 /\ r.avgTimeBetween <= MAX_SEQUENCE_GAP

\* C29 witness: after three upserts of one identity with 30000, 0 and 500 ms
\* the stored average is strictly inside the range.
C29_Witness ==
  \E r \in apiDependencies :
    /\ r.frequency = 3
    /\ UpsertedValues(r.id) = << MAX_SEQUENCE_GAP, 0, 500 >>
    /\ r.avgTimeBetween > 500
    /\ r.avgTimeBetween < MAX_SEQUENCE_GAP

----------------------------------------------------------------------------
(* Claims on repeated runs *)

\* the number of edges of the lists depLists stored under the identity id
RECURSIVE PairsInList(_, _, _)
PairsInList(deps, n, id) ==
  IF n = 0 THEN 0
  ELSE PairsInList(deps, n - 1, id)
       + (IF Parseable(deps[n].fromCall) /\ Parseable(deps[n].toCall)
             /\ DependencyCallOf(deps[n]).id = id THEN 1 ELSE 0)
RECURSIVE PairsEmitted(_, _, _)
PairsEmitted(depLists, k, id) ==
  IF k = 0 THEN 0
  ELSE PairsEmitted(depLists, k - 1, id) + PairsInList(depLists[k], Len(depLists[k]), id)

\* the frequency stored for the identity id, 0 when it has no row
FrequencyOf(table, id) ==
  IF RowsOf(table, id) = {} THEN 0 ELSE (CHOOSE r \in RowsOf(table, id) : TRUE).frequency

\* C25 (as claimed): each run over the call set adds to the frequency of
\* every stored dependency the number m of pairs the detector emitted with
\* its identity in that run, so that k runs over an unchanged call set leave
\* frequency = k x m.
C25_FrequencyIsRunsTimesPairs ==
  [][ RunStep =>
        \A r \in apiDependencies' :
          r.frequency = FrequencyOf(apiDependencies, r.id)
                        + PairsEmitted(dependencies', Len(dependencies'), r.id) ]_vars

----------------------------------------------------------------------------
(* Claims on the trigger and on runs that overlap *)

\* the step is the write of the upsert the run k was waiting for
WriteStepOf(k) ==
  /\ tasks[k].pc = "write"
  /\ tasks'[k] = AfterItem(tasks[k])
  /\ Len(upserted') = Len(upserted) + 1

\* the step saves the call c through the save request
SaveStepOf(c) == apiCalls' = Append(apiCalls, c)

CompletedUpserts(tableName, id) ==
  Len(SelectSeq(upserted, LAMBDA u : u.table = tableName /\ u.id = id /\ ~u.threw))

\* C23: runs of one tab overlap, and an update writes the frequency its own
\* select has read plus one, whatever was written to the row since; a row's
\* frequency never exceeds the number of upserts completed for it, and (the
\* witness) it can be smaller.
C23_LostUpdate ==
  /\ [][ \A k \in DOMAIN tasks :
           (WriteStepOf(k) /\ tasks[k].existing # {}) =>
             LET item == Head(tasks[k].pending)
                 table == IF item.kind = "dependency" THEN apiDependencies'
                                                      ELSE apiWorkflows'
             IN \A r \in SelectById(table, ItemId(item)) :
                  \A e \in tasks[k].existing : r.frequency = e.frequency + 1 ]_vars
  /\ [](\A r \in apiDependencies : r.frequency <= CompletedUpserts("dependency", r.id))
  /\ [](\A r \in apiWorkflows : r.frequency <= CompletedUpserts("workflow", r.id))

\* C23 witness: two runs of tab 1 have ended after overlapping, and the
\* frequency of a dependency row is smaller than the number of upserts that
\* completed for it.
C23_Witness ==
  /\ Len(tasks) = 2
  /\ \A k \in DOMAIN tasks : tasks[k].pc = "done" /\ tasks[k].tabId = 1
  /\ \E r \in apiDependencies : r.frequency < CompletedUpserts("dependency", r.id)

\* C24 (as claimed): a run whose calls have been cleared makes no upsert
\* after the clear: at every write of a run the calls it read are stored.
C24_ClearCancelsRun ==
  [][ \A k \in DOMAIN tasks :
        WriteStepOf(k) =>
          \A id \in tasks[k].read : \E n \in DOMAIN apiCalls : apiCalls[n].id = id ]_vars

\* C26 (as claimed): the clear of a tab's calls leaves the stored
\* dependencies and workflows as they are, and no step deletes a stored row
\* or decreases its frequency.
C26_ClearAndRunsKeepResults ==
  /\ [][ Len(apiCalls') < Len(apiCalls) =>
           /\ UNCHANGED <<apiDependencies, apiWorkflows>>
           /\ \A n \in DOMAIN apiCalls' : apiCalls'[n].tabId # 1 ]_vars
  /\ [][ /\ \A r \in apiDependencies :
              \E q \in apiDependencies' : q.id = r.id /\ q.frequency >= r.frequency
         /\ \A r \in apiWorkflows :
              \E q \in apiWorkflows' : q.id = r.id /\ q.frequency >= r.frequency ]_vars

\* C30: under every interleaving the store holds at most one dependency row
\* per (fromEndpointId, toEndpointId) and one workflow row per (baseUrl,
\* normalized name); an insert that finds the row of its id inserted in the
\* meantime is rejected and leaves the table as it is.
C30_OneRowPerIdentity ==
  /\ [](\A r, q \in apiDependencies :
          (r.fromEndpointId = q.fromEndpointId /\ r.toEndpointId = q.toEndpointId)
            => r = q)
  /\ [](\A r, q \in apiWorkflows : KeyOf(r) = KeyOf(q) => r = q)
  /\ [][ \A k \in DOMAIN tasks :
           (/\ WriteStepOf(k) /\ tasks[k].existing = {}
            /\ SelectById(apiDependencies \cup apiWorkflows,
                          ItemId(Head(tasks[k].pending))) # {}) =>
             /\ upserted'[Len(upserted')].threw
             /\ UNCHANGED <<apiDependencies, apiWorkflows>> ]_vars

\* C30 witness: two upserts of one identity both found no row; the first
\* inserted it, the second was rejected, and the store holds the one row.
C30_Witness ==
  \E i, j \in DOMAIN upserted :
    /\ i < j
    /\ upserted[i].id = upserted[j].id
    /\ ~upserted[i].threw
    /\ upserted[j].threw
    /\ Cardinality(SelectById(apiDependencies \cup apiWorkflows, upserted[i].id)) = 1

====
